---- MODULE Spec2Model ----
(***************************************************************************)
(* Dynamic style generation and deduplication of the layout primitives of  *)
(* the ui library (box, stack, grid, container, cover, switcher, center,   *)
(* reel): the value sanitizer, the signature hasher, the style registry    *)
(* kept in document.head and the per-instance lifecycle hooks.             *)
(*                                                                         *)
(* JavaScript strings are sequences of UTF-16 code units (naturals).       *)
(* JavaScript values are records [t, s, n]: t is the type tag, s the code  *)
(* units of a string, n the number or the boolean (1 = true).              *)
(***************************************************************************)
EXTENDS Integers, Sequences, FiniteSets, TLC

\* ------------------------------------------------------------------------
\* String literals of the source, as code units.
\* ------------------------------------------------------------------------
\* The strings String(v) yields for the values without digits, the parts of
\* `var(--${size})` and the string defaults of the inputs.
Text ==
  [null |-> <<110, 117, 108, 108>>,  \* "null"
   undefined |-> <<117, 110, 100, 101, 102, 105, 110, 101, 100>>,  \* "undefined"
   true |-> <<116, 114, 117, 101>>,  \* "true"
   false |-> <<102, 97, 108, 115, 101>>,  \* "false"
   varOpen |-> <<118, 97, 114, 40, 45, 45>>,  \* "var(--"
   varClose |-> <<41>>,  \* ")"
   transparent |-> <<116, 114, 97, 110, 115, 112, 97, 114, 101, 110, 116>>,  \* "transparent"
   inherit |-> <<105, 110, 104, 101, 114, 105, 116>>,  \* "inherit"
   h1 |-> <<104, 49>>,  \* "h1"
   auto |-> <<97, 117, 116, 111>>,  \* "auto"
   px250 |-> <<50, 53, 48, 112, 120>>,  \* "250px"
   var_s0 |-> <<118, 97, 114, 40, 45, 45, 115, 48, 41>>,  \* "var(--s0)"
   s1 |-> <<115, 49>>,  \* "s1"
   s2 |-> <<115, 50>>,  \* "s2"
   measure |-> <<109, 101, 97, 115, 117, 114, 101>>]  \* "measure"

\* The keys of the configuration records.
Key ==
  [padding |-> <<112, 97, 100, 100, 105, 110, 103>>,  \* "padding"
   borderWidth |-> <<98, 111, 114, 100, 101, 114, 87, 105, 100, 116, 104>>,  \* "borderWidth"
   borderRadius |-> <<98, 111, 114, 100, 101, 114, 82, 97, 100, 105, 117, 115>>,  \* "borderRadius"
   backgroundColor |-> <<98, 97, 99, 107, 103, 114, 111, 117, 110, 100, 67, 111, 108, 111, 114>>,  \* "backgroundColor"
   color |-> <<99, 111, 108, 111, 114>>,  \* "color"
   space |-> <<115, 112, 97, 99, 101>>,  \* "space"
   recursive |-> <<114, 101, 99, 117, 114, 115, 105, 118, 101>>,  \* "recursive"
   splitAfter |-> <<115, 112, 108, 105, 116, 65, 102, 116, 101, 114>>,  \* "splitAfter"
   min |-> <<109, 105, 110>>,  \* "min"
   name |-> <<110, 97, 109, 101>>,  \* "name"
   centered |-> <<99, 101, 110, 116, 101, 114, 101, 100>>,  \* "centered"
   minHeight |-> <<109, 105, 110, 72, 101, 105, 103, 104, 116>>,  \* "minHeight"
   noPad |-> <<110, 111, 80, 97, 100>>,  \* "noPad"
   threshold |-> <<116, 104, 114, 101, 115, 104, 111, 108, 100>>,  \* "threshold"
   gap |-> <<103, 97, 112>>,  \* "gap"
   limit |-> <<108, 105, 109, 105, 116>>,  \* "limit"
   maxWidth |-> <<109, 97, 120, 87, 105, 100, 116, 104>>,  \* "maxWidth"
   centerText |-> <<99, 101, 110, 116, 101, 114, 84, 101, 120, 116>>,  \* "centerText"
   intrinsic |-> <<105, 110, 116, 114, 105, 110, 115, 105, 99>>,  \* "intrinsic"
   gutterWidth |-> <<103, 117, 116, 116, 101, 114, 87, 105, 100, 116, 104>>,  \* "gutterWidth"
   itemWidth |-> <<105, 116, 101, 109, 87, 105, 100, 116, 104>>,  \* "itemWidth"
   height |-> <<104, 101, 105, 103, 104, 116>>,  \* "height"
   noBar |-> <<110, 111, 66, 97, 114>>,  \* "noBar"
   role |-> <<114, 111, 108, 101>>]  \* "role"

\* The identifier prefix of each kind.
Prefix ==
  [box |-> <<112, 99, 45, 98, 111, 120, 45>>,  \* "pc-box-"
   stack |-> <<112, 99, 45, 115, 116, 97, 99, 107, 45>>,  \* "pc-stack-"
   grid |-> <<112, 99, 45, 103, 114, 105, 100, 45>>,  \* "pc-grid-"
   container |-> <<112, 99, 45, 99, 111, 110, 116, 97, 105, 110, 101, 114, 45>>,  \* "pc-container-"
   cover |-> <<112, 99, 45, 99, 111, 118, 101, 114, 45>>,  \* "pc-cover-"
   switcher |-> <<112, 99, 45, 115, 119, 105, 116, 99, 104, 101, 114, 45>>,  \* "pc-switcher-"
   center |-> <<112, 99, 45, 99, 101, 110, 116, 101, 114, 45>>,  \* "pc-center-"
   reel |-> <<112, 99, 45, 114, 101, 101, 108, 45>>]  \* "pc-reel-"

\* Strings bound to the inputs: a width, a value closing the declaration and
\* the rule, a colour, a container name.
Sample ==
  [px2 |-> <<50, 112, 120>>,  \* "2px"
   inject |-> <<97, 59, 125>>,  \* "a;}"
   red |-> <<114, 101, 100>>,  \* "red"
   list |-> <<108, 105, 115, 116>>]  \* "list"

ALL_SIZES == {<<115, 45, 53>>, <<115, 45, 52>>, <<115, 45, 51>>, <<115, 45, 50>>, <<115, 45, 49>>, <<115, 48>>, <<115, 49>>, <<115, 50>>, <<115, 51>>, <<115, 52>>, <<115, 53>>, <<109, 101, 97, 115, 117, 114, 101>>}

\* ------------------------------------------------------------------------
\* JavaScript values
\* ------------------------------------------------------------------------
Str(s) == [t |-> "string", s |-> s, n |-> 0]
Null == [t |-> "null", s |-> <<>>, n |-> 0]
Undefined == [t |-> "undefined", s |-> <<>>, n |-> 0]
Bool(b) == [t |-> "boolean", s |-> <<>>, n |-> IF b THEN 1 ELSE 0]
Num(k) == [t |-> "number", s |-> <<>>, n |-> k]

\* ToBoolean: '', null, undefined, false and 0 are falsy.
Truthy(v) ==
  CASE v.t = "string" -> v.s # <<>>
    [] v.t = "boolean" -> v.n = 1
    [] v.t = "number" -> v.n # 0
    [] OTHER -> FALSE

\* v == null (loose): null and undefined.
IsNullish(v) == v.t \in {"null", "undefined"}

RECURSIVE Decimal(_)
\* Number.prototype.toString() of a natural number.
Decimal(k) == IF k < 10 THEN <<48 + k>> ELSE Decimal(k \div 10) \o <<48 + (k % 10)>>

\* The string conversion a template literal `${v}` applies.
ToStr(v) ==
  CASE v.t = "string" -> v.s
    [] v.t = "null" -> Text.null
    [] v.t = "undefined" -> Text.undefined
    [] v.t = "boolean" -> IF v.n = 1 THEN Text.true ELSE Text.false
    [] OTHER -> Decimal(v.n)

\* ------------------------------------------------------------------------
\* atom-config-helper: sanitizeCssValue, generateSignature, hashString
\* ------------------------------------------------------------------------
\* The characters the regular expression /[^0-9a-zA-Z().% \-+*\/]/g keeps.
AllowedChar(c) ==
  \/ c \in 48..57
  \/ c \in 65..90
  \/ c \in 97..122
  \/ c \in {40, 41, 46, 37, 32, 45, 43, 42, 47}

\* Faulty variant: replace without the g flag removes the first match only.
StripDisallowed_FirstOnly(s) ==
  LET bad == {p \in DOMAIN s : ~AllowedChar(s[p])}
  IN IF bad = {} THEN s
     ELSE LET first == CHOOSE p \in bad : \A q \in bad : p <= q
          IN SubSeq(s, 1, first - 1) \o SubSeq(s, first + 1, Len(s))

RECURSIVE StripDisallowed_Escaped(_)
\* Faulty variant: a character outside the allow-list is escaped with a
\* backslash and kept.
StripDisallowed_Escaped(s) ==
  IF s = <<>> THEN <<>>
  ELSE (IF AllowedChar(Head(s)) THEN <<Head(s)>> ELSE <<92, Head(s)>>)
       \o StripDisallowed_Escaped(Tail(s))

\* String.prototype.replace(/[^...]/g, ''): the allowed code units, in order.
StripDisallowed(s) == SelectSeq(s, AllowedChar)

\* Faulty variant: no test of a falsy value before String(val).
sanitizeCssValue_NoGuard(v) == SelectSeq(ToStr(v), AllowedChar)

\* sanitizeCssValue(val): '' for a falsy value, else String(val) without the
\* characters outside the allow-list.
sanitizeCssValue(v) == IF ~Truthy(v) THEN <<>> ELSE StripDisallowed(ToStr(v))

\* Primary collation weight of an ASCII code unit: letters compare without case.
Fold(c) == IF c \in 65..90 THEN c + 32 ELSE c

\* The positions at which a and b differ, within their common length; with
\* fold, letters are compared without case.
Diff(a, b, fold) ==
  {k \in 1..(IF Len(a) < Len(b) THEN Len(a) ELSE Len(b)) :
     IF fold THEN Fold(a[k]) # Fold(b[k]) ELSE a[k] # b[k]}

First(S) == CHOOSE x \in S : \A y \in S : x <= y

\* The first difference decides: d and e are the positions at which a and b
\* differ without and with case.
CompareAt(a, b, d, e) ==
  IF d # {} THEN Fold(a[First(d)]) < Fold(b[First(d)])
  ELSE IF Len(a) # Len(b) THEN Len(a) < Len(b)
  ELSE e # {} /\ a[First(e)] > b[First(e)]

\* keyA.localeCompare(keyB) < 0 on the ASCII keys of the configuration
\* records: the first letter that differs without case decides, then the
\* length, then the first difference of case (lower case first).
localeCompareLess(a, b) == CompareAt(a, b, Diff(a, b, TRUE), Diff(a, b, FALSE))

RECURSIVE InsertEntry(_, _)
\* Insert the entry e = <<key, value>> into the sorted entries es, after the
\* entries whose key does not sort after its key.
InsertEntry(e, es) ==
  IF es = <<>> THEN <<e>>
  ELSE IF localeCompareLess(e[1], Head(es)[1]) THEN <<e>> \o es
  ELSE <<Head(es)>> \o InsertEntry(e, Tail(es))

\* Faulty variant: the entries are left in insertion order.
SortEntries_Unsorted(es) == es

RECURSIVE SortEntries(_)
\* Object.entries(config).sort(by key): a stable sort of the entries.
SortEntries(es) ==
  IF es = <<>> THEN <<>>
  ELSE InsertEntry(es[Len(es)], SortEntries(SubSeq(es, 1, Len(es) - 1)))

RECURSIVE JoinEntries(_)
\* entries.map(([key, value]) => `${key}:${value}`).join('|')
JoinEntries(es) ==
  IF es = <<>> THEN <<>>
  ELSE Head(es)[1] \o <<58>> \o ToStr(Head(es)[2])
       \o (IF Len(es) > 1 THEN <<124>> ELSE <<>>) \o JoinEntries(Tail(es))

RECURSIVE BitXor(_, _)
\* Bitwise exclusive or of two naturals.
BitXor(a, b) ==
  IF a = 0 THEN b
  ELSE IF b = 0 THEN a
  ELSE ((a + b) % 2) + 2 * BitXor(a \div 2, b \div 2)



\* Faulty variant: the character code is added, not combined by exclusive or.
HashStep_Plus(h, c) ==
  [hi |-> (h.hi * 33 + ((h.lo * 33 + c) \div 65536)) % 65536,
   lo |-> (h.lo * 33 + c) % 65536]

\* A 32-bit word is kept as two 16-bit halves, so that h * 33 wraps modulo
\* 2^32 exactly as ToInt32 makes it wrap.
HashStep(h, c) ==
  [hi |-> (h.hi * 33 + ((h.lo * 33) \div 65536)) % 65536,
   lo |-> BitXor((h.lo * 33) % 65536, c)]

RECURSIVE HashFrom(_, _)
RECURSIVE HashRest(_, _)
\* The loop of hashString over the code units of s, from the word h. The
\* string is folded left to right, half by half.
HashFrom(h, s) ==
  IF s = <<>> THEN h
  ELSE IF Len(s) = 1 THEN HashStep(h, s[1])
  ELSE HashRest(HashFrom(h, SubSeq(s, 1, Len(s) \div 2)),
                SubSeq(s, (Len(s) \div 2) + 1, Len(s)))

\* The right half, from the word of the left half; the test on that word has
\* it computed before the right half starts.
HashRest(left, s) == IF left.lo >= 0 THEN HashFrom(left, s) ELSE left

HashSeed == 5381

\* Division of the unsigned word by 36: the quotient word and the remainder.
Div36(h) ==
  LET t == (h.hi % 36) * 65536 + h.lo
  IN [q |-> [hi |-> h.hi \div 36, lo |-> t \div 36], r |-> t % 36]

Digit36(d) == IF d < 10 THEN 48 + d ELSE 97 + (d - 10)

RECURSIVE ToBase36(_)
\* (h >>> 0).toString(36)
ToBase36(h) ==
  LET d == Div36(h)
  IN IF d.q.hi = 0 /\ d.q.lo = 0 THEN <<Digit36(d.r)>>
     ELSE ToBase36(d.q) \o <<Digit36(d.r)>>

\* The unsigned 32-bit hash of s, as halves.
HashWord(s) == HashFrom([hi |-> 0, lo |-> HashSeed], s)

hashString(s) == ToBase36(HashWord(s))

\* A configuration record is the sequence of its <<key, value>> entries in
\* insertion order.
generateSignature(config) == hashString(JoinEntries(SortEntries(config)))

\* ------------------------------------------------------------------------
\* State
\* ------------------------------------------------------------------------
\* head: the generated <style> nodes of document.head, in document order;
\*       a node is [generatedBy, signature, textContent].
\* inst: the component instances with their host elements.
\* changes: the number of input changes delivered so far.
\* upserted: the <<component, signature>> keys passed to injectStyle so far.
\* arg, result: the argument and the result of a helper applied on its own.
\* catalog: the PokeCatalog page component and its list requests.
\* nav: the NavigationService instances and the state they share.
\* theme: the ThemeService, the document element and the browser around it.
VARIABLES head, inst, changes, upserted, arg, result, catalog, nav, theme

\* The value of the variable of a part of the application that the
\* specification at hand does not instantiate.
NotInstantiated == <<>>
vars == <<head, inst, changes, upserted, arg, result, catalog, nav, theme>>

\* The instance slots of the model.
Instances == {1, 2}

\* The number of input changes (ngOnChanges calls) of a run.
MaxChanges == 1

\* A style text is the sequence of the pieces of its template literal: the
\* literal chunks (lit) and the interpolated strings (val, as code units).
Lit(s) == [lit |-> s, val |-> <<>>]
Val(s) == [lit |-> "", val |-> s]

\* No helper has been applied on its own.
NotApplied == <<-1>>

\* The host element before the component has touched it.
BareHost == [tag |-> Null, classes |-> {}, role |-> Null]

\* config = <<>> stands for config === null: every record has an entry.
NoConfig == <<>>

\* A slot no component has been created in.
Absent ==
  [kind |-> "none", phase |-> "absent", inputs |-> <<>>, ident |-> Undefined,
   config |-> NoConfig, host |-> BareHost, observing |-> FALSE]

\* A freshly constructed component of a kind with its default inputs.
NewInstance(kind, inputs) ==
  [kind |-> kind, phase |-> "constructed", inputs |-> inputs, ident |-> Undefined,
   config |-> NoConfig, host |-> BareHost, observing |-> FALSE]

\* ------------------------------------------------------------------------
\* Style registry: injectStyle
\* ------------------------------------------------------------------------
\* Faulty variant: the selector names an attribute (data-sig) injectStyle
\* never writes on its nodes.
Matching_UnwrittenAttribute(h, component, signature) ==
  {k \in 1..Len(h) : h[k].generatedBy = component /\ "data-sig" \in DOMAIN h[k]}

\* The nodes style[data-generated-by=component][data-signature=signature].
Matching(h, component, signature) ==
  {k \in 1..Len(h) : h[k].generatedBy = component /\ h[k].signature = signature}

\* Faulty variant: a node is created without looking for an existing one.
injectStyle_AlwaysAppend(h, component, signature, style) ==
  Append(h, [generatedBy |-> component, signature |-> signature,
             textContent |-> style])

\* Faulty variant: the node is looked up by component alone and reused for
\* the new signature.
injectStyle_PerComponent(h, component, signature, style) ==
  LET found == {k \in 1..Len(h) : h[k].generatedBy = component}
  IN IF found = {}
     THEN Append(h, [generatedBy |-> component, signature |-> signature,
                     textContent |-> style])
     ELSE [h EXCEPT ![CHOOSE k \in found : \A m \in found : k <= m] =
             [generatedBy |-> component, signature |-> signature,
              textContent |-> style]]

\* Faulty variant: an existing node keeps the text it has.
injectStyle_KeepsFirst(h, component, signature, style) ==
  IF \E k \in 1..Len(h) : h[k].generatedBy = component /\ h[k].signature = signature
  THEN h
  ELSE Append(h, [generatedBy |-> component, signature |-> signature,
                  textContent |-> style])

\* Faulty variant: the text is added to the text of an existing node.
injectStyle_AddsText(h, component, signature, style) ==
  LET found == {k \in 1..Len(h) :
                  h[k].generatedBy = component /\ h[k].signature = signature}
  IN IF found = {}
     THEN Append(h, [generatedBy |-> component, signature |-> signature,
                     textContent |-> style])
     ELSE [h EXCEPT ![CHOOSE k \in found : TRUE].textContent = @ \o style]

\* Faulty variant: a new node takes the place of the component's other nodes.
injectStyle_SingleSheet(h, component, signature, style) ==
  LET found == {k \in 1..Len(h) :
                  h[k].generatedBy = component /\ h[k].signature = signature}
  IN IF found = {}
     THEN Append(SelectSeq(h, LAMBDA n : n.generatedBy # component),
                 [generatedBy |-> component, signature |-> signature,
                  textContent |-> style])
     ELSE [h EXCEPT ![CHOOSE k \in found : TRUE].textContent = style]

\* Faulty variant: the selector is `style` alone, so the first style node of
\* the head is the one found.
injectStyle_FirstStyle(h, component, signature, style) ==
  IF h = <<>>
  THEN Append(h, [generatedBy |-> component, signature |-> signature,
                  textContent |-> style])
  ELSE [h EXCEPT ![1].textContent = style]

\* querySelector takes the first matching node in document order; a missing
\* node is created and appended, an existing one has its text replaced.
injectStyle(h, component, signature, style) ==
  LET found == Matching(h, component, signature)
  IN IF found = {}
     THEN Append(h, [generatedBy |-> component, signature |-> signature,
                     textContent |-> style])
     ELSE [h EXCEPT ![First(found)].textContent = style]

\* `var(--${size})` for a size token, the sanitized value otherwise.
IsSize(v) == v.t = "string" /\ v.s \in ALL_SIZES
SizeOrSanitized(v) ==
  IF IsSize(v) THEN Text.varOpen \o v.s \o Text.varClose ELSE sanitizeCssValue(v)

\* A component is created in the first free slot.
CanCreate(i) ==
  /\ inst[i].phase = "absent"
  /\ \A j \in Instances : j < i => inst[j].phase # "absent"

\* An input change is delivered while the component is alive and only when
\* the bound value differs from the current one.
CanChange(i, kind, name, v) ==
  /\ inst[i].kind = kind
  /\ inst[i].phase \in {"constructed", "initialized"}
  /\ changes < MaxChanges
  /\ inst[i].inputs[name] # v

SetInput(o, name, v) == [o EXCEPT !.inputs[name] = v]

\* ------------------------------------------------------------------------
\* Inputs and configuration records of the element kinds
\* ------------------------------------------------------------------------
\* Math.max(1, Math.floor(Number(v) || 1)) on a natural number or null.
AtLeastOne(v) == IF v.t = "number" /\ v.n >= 1 THEN v.n ELSE 1

\* Box
BoxDefaults ==
  [padding |-> Str(Text.s1), borderWidth |-> Null, borderRadius |-> Null,
   backgroundColor |-> Null, color |-> Undefined]

BoxValues ==
  [padding |-> {Str(Text.s1), Str(Sample.px2)},
   borderWidth |-> {Null, Str(Text.null)},
   borderRadius |-> {Null, Str(Text.s2)},
   backgroundColor |-> {Null, Str(Sample.red)},
   color |-> {Undefined, Str(Sample.inject)}]

BoxConfig(in) ==
  LET padding == Str(SizeOrSanitized(in.padding))
      borderWidth == IF ~IsNullish(in.borderWidth)
                     THEN Str(SizeOrSanitized(in.borderWidth)) ELSE Null
      borderRadius == IF ~IsNullish(in.borderRadius)
                      THEN Str(SizeOrSanitized(in.borderRadius)) ELSE Null
      backgroundColor ==
        Str(sanitizeCssValue(IF Truthy(in.backgroundColor)
                             THEN in.backgroundColor ELSE Str(Text.transparent)))
      color == Str(sanitizeCssValue(IF Truthy(in.color) THEN in.color
                                    ELSE Str(Text.inherit)))
  IN << <<Key.padding, padding>>, <<Key.borderWidth, borderWidth>>,
       <<Key.backgroundColor, backgroundColor>>,
       <<Key.borderRadius, borderRadius>>, <<Key.color, color>> >>

\* Stack
StackDefaults == [space |-> Str(Text.s1), recursive |-> Bool(FALSE), splitAfter |-> Null]

StackValues ==
  [space |-> {Str(Text.s1), Str(Sample.px2)},
   recursive |-> {Bool(FALSE), Bool(TRUE)},
   splitAfter |-> {Null, Num(2)}]

StackConfig(in) ==
  LET space == Str(SizeOrSanitized(in.space))
      splitAfter == IF ~IsNullish(in.splitAfter) THEN Num(AtLeastOne(in.splitAfter))
                    ELSE Null
  IN << <<Key.space, space>>, <<Key.recursive, Bool(Truthy(in.recursive))>>,
        <<Key.splitAfter, splitAfter>> >>

\* Grid
GridDefaults == [min |-> Str(Text.px250), space |-> Str(Text.s1)]

GridValues ==
  [min |-> {Str(Text.px250), Str(Sample.inject)},
   space |-> {Str(Text.s1), Str(Sample.px2)}]

GridConfig(in) ==
  << <<Key.min, Str(sanitizeCssValue(in.min))>>,
     <<Key.space, Str(SizeOrSanitized(in.space))>> >>

\* Container
ContainerDefaults == [name |-> Undefined]

ContainerValues == [name |-> {Undefined, Str(Sample.list), Str(Sample.inject)}]

\* The name goes into the record as the caller gave it.
ContainerConfig(in) ==
  << <<Key.name, in.name>> >>

\* Cover
CoverDefaults ==
  [centered |-> Str(Text.h1), space |-> Str(Text.s1), minHeight |-> Str(Text.measure),
   noPad |-> Bool(FALSE)]

CoverValues ==
  [centered |-> {Str(Text.h1), Str(Sample.inject)},
   space |-> {Str(Text.s1), Str(Sample.px2)},
   minHeight |-> {Str(Text.measure), Str(Sample.px2)},
   noPad |-> {Bool(FALSE), Bool(TRUE)}]

\* The centered selector goes into the record as the caller gave it.
CoverConfig(in) ==
  LET centered == IF Truthy(in.centered) THEN in.centered ELSE Str(Text.h1)
  IN << <<Key.centered, centered>>,
       <<Key.space, Str(SizeOrSanitized(in.space))>>,
       <<Key.minHeight, Str(SizeOrSanitized(in.minHeight))>>,
       <<Key.noPad, Bool(Truthy(in.noPad))>> >>

\* Switcher
SwitcherDefaultLimit == 4

SwitcherDefaults ==
  [threshold |-> Str(Text.s2), gap |-> Str(Text.s1), limit |-> Num(SwitcherDefaultLimit)]

SwitcherValues ==
  [threshold |-> {Str(Text.s2), Str(Sample.px2)},
   gap |-> {Str(Text.s1), Str(Text.s2)},
   limit |-> {Num(SwitcherDefaultLimit), Num(2)}]

SwitcherConfig(in) ==
  << <<Key.threshold, Str(SizeOrSanitized(in.threshold))>>,
       <<Key.gap, Str(SizeOrSanitized(in.gap))>>,
       <<Key.limit, Num(AtLeastOne(in.limit))>> >>

\* Center
CenterDefaults ==
  [maxWidth |-> Null, centerText |-> Bool(FALSE), intrinsic |-> Bool(FALSE),
   gutterWidth |-> Null]

CenterValues ==
  [maxWidth |-> {Null, Str(Text.measure)},
   centerText |-> {Bool(FALSE), Bool(TRUE)},
   intrinsic |-> {Bool(FALSE), Bool(TRUE)},
   gutterWidth |-> {Null, Str(Text.s1)}]

CenterConfig(in) ==
  LET maxWidth == IF IsNullish(in.maxWidth) THEN Null
                  ELSE Str(SizeOrSanitized(in.maxWidth))
      gutterWidth == IF IsNullish(in.gutterWidth) THEN Null
                     ELSE Str(SizeOrSanitized(in.gutterWidth))
  IN << <<Key.maxWidth, maxWidth>>, <<Key.centerText, in.centerText>>,
       <<Key.intrinsic, in.intrinsic>>, <<Key.gutterWidth, gutterWidth>> >>

\* Reel
ReelDefaults ==
  [itemWidth |-> Str(Text.auto), space |-> Str(Text.var_s0), height |-> Str(Text.auto),
   noBar |-> Bool(FALSE), role |-> Str(<<>>)]

ReelValues ==
  [itemWidth |-> {Str(Text.auto), Str(Sample.px2)},
   space |-> {Str(Text.var_s0), Str(Sample.px2)},
   height |-> {Str(Text.auto), Str(Sample.inject)},
   noBar |-> {Bool(FALSE), Bool(TRUE)},
   role |-> {Str(<<>>), Str(Sample.list)}]

ReelConfig(in) ==
  << <<Key.itemWidth, Str(sanitizeCssValue(in.itemWidth))>>,
       <<Key.space, Str(sanitizeCssValue(in.space))>>,
       <<Key.height, Str(sanitizeCssValue(in.height))>>,
       <<Key.noBar, in.noBar>>, <<Key.role, in.role>> >>

\* ------------------------------------------------------------------------
\* Signatures
\* ------------------------------------------------------------------------
\* The input records the model gives a component of each kind.
InputsOf(values) ==
  {in \in [DOMAIN values -> UNION {values[n] : n \in DOMAIN values}] :
     \A n \in DOMAIN values : in[n] \in values[n]}

\* The configuration records those inputs produce.
AllConfigs ==
       {BoxConfig(in) : in \in InputsOf(BoxValues)}
  \cup {StackConfig(in) : in \in InputsOf(StackValues)}
  \cup {GridConfig(in) : in \in InputsOf(GridValues)}
  \cup {ContainerConfig(in) : in \in InputsOf(ContainerValues)}
  \cup {CoverConfig(in) : in \in InputsOf(CoverValues)}
  \cup {SwitcherConfig(in) : in \in InputsOf(SwitcherValues)}
  \cup {CenterConfig(in) : in \in InputsOf(CenterValues)}
  \cup {ReelConfig(in) : in \in InputsOf(ReelValues)}

\* generateSignature over those records, computed once for the whole run.
SignatureOf == [config \in AllConfigs |-> generateSignature(config)]

\* ------------------------------------------------------------------------
\* Shared steps of the lifecycle hooks
\* ------------------------------------------------------------------------
\* this.config = config; this.ident = `${prefix}${generateSignature(config)}`
Configured(o, prefix, config) ==
  [o EXCEPT !.config = config, !.ident = Str(prefix \o SignatureOf[config])]

\* host.classList.add(class); host.setAttribute('data-pc-<kind>', this.ident)
Tagged(o, class) == [o EXCEPT !.host.classes = @ \cup {class}, !.host.tag = o.ident]

\* The value of a key of a configuration record.
Get(config, key) == (CHOOSE e \in {config[k] : k \in DOMAIN config} : e[1] = key)[2]

\* A handler's outcome is the instance o, the document head and the keys it
\* passed to injectStyle.
NoEffect(o, h) == [o |-> o, head |-> h, upserts |-> {}]

\* injectStyle(component, this.ident, style) by the instance o.
Injected(o, h, component, style) ==
  [o |-> o, head |-> injectStyle(h, component, o.ident.s, style),
   upserts |-> {<<component, o.ident.s>>}]

\* A handler's outcome becomes the state of instance i and of the document.
Commit(i, r) ==
  /\ inst' = [inst EXCEPT ![i] = r.o]
  /\ head' = r.head
  /\ upserted' = upserted \cup r.upserts
  /\ UNCHANGED <<arg, result, catalog, nav, theme>>

\* ngOnInit has run.
Initialized(r) == [r EXCEPT !.o.phase = "initialized"]

\* setupObservers has run.
Observing(r) == [r EXCEPT !.o.observing = TRUE]

\* ------------------------------------------------------------------------
\* Box
\* ------------------------------------------------------------------------
BoxUpdateConfigAndSignature(o) == Configured(o, Prefix.box, BoxConfig(o.inputs))

BoxGenerateStyle(signature, config) ==
  LET padding == Get(config, Key.padding)
      borderWidth == Get(config, Key.borderWidth)
      borderRadius == Get(config, Key.borderRadius)
      backgroundColor == Get(config, Key.backgroundColor)
      color == Get(config, Key.color)
      noBorder == IsNullish(borderWidth) \/ borderWidth = Str(<<48>>)
  IN <<Lit(".box[data-pc-box=\""), Val(signature),
       Lit("\"] { display: block; unicode-bidi: isolate; padding: "),
       Val(ToStr(padding)), Lit(";")>>
     \o (IF ~IsNullish(backgroundColor)
         THEN <<Lit("background-color: "), Val(ToStr(backgroundColor)), Lit(";")>>
         ELSE <<Lit("false")>>)
     \o (IF ~IsNullish(color)
         THEN <<Lit("color: "), Val(ToStr(color)), Lit(";")>>
         ELSE <<Lit("false")>>)
     \o (IF ~noBorder
         THEN <<Lit("border: "), Val(ToStr(borderWidth)), Lit(" solid;")>>
         ELSE <<Lit("false")>>)
     \o (IF noBorder
         THEN <<Lit("border: 0 solid; outline: var(--s-1) solid transparent; outline-offset: calc(var(--s-1) * -1);")>>
         ELSE <<Lit("")>>)
     \o (IF ~IsNullish(borderRadius)
         THEN <<Lit("border-radius: "), Val(ToStr(borderRadius)), Lit(";")>>
         ELSE <<Lit("false")>>)
     \o <<Lit("} .box[data-pc-box=\""), Val(signature), Lit("\"] * { color: inherit; }")>>

\* updateStyle: the instance and the document head after the call.
BoxUpdateStyle(o, h) ==
  IF o.config = NoConfig \/ ~Truthy(o.ident) THEN NoEffect(o, h)
  ELSE Injected(Tagged(o, "box"), h, "pc-box", BoxGenerateStyle(o.ident.s, o.config))

\* The body of ngOnChanges, once the framework has set the input `name`.
BoxOnChanges(o, name, h) ==
  IF ~Truthy(o.ident) THEN NoEffect(o, h)
  ELSE IF name \in {"padding", "borderWidth", "backgroundColor", "color"}
  THEN BoxUpdateStyle(BoxUpdateConfigAndSignature(o), h)
  ELSE NoEffect(o, h)

BoxCreate(i) ==
  /\ CanCreate(i)
  /\ inst' = [inst EXCEPT ![i] = NewInstance("box", BoxDefaults)]
  /\ UNCHANGED <<head, changes, upserted, arg, result, catalog, nav, theme>>

BoxNgOnInit(i) ==
  /\ inst[i].kind = "box"
  /\ inst[i].phase = "constructed"
  /\ Commit(i, Initialized(BoxUpdateStyle(BoxUpdateConfigAndSignature(inst[i]), head)))
  /\ UNCHANGED changes

BoxNgOnChanges(i, name, v) ==
  /\ CanChange(i, "box", name, v)
  /\ Commit(i, BoxOnChanges(SetInput(inst[i], name, v), name, head))
  /\ changes' = changes + 1

\* Box declares no ngOnDestroy: the framework destroys the component and the
\* host element keeps what updateStyle wrote on it.
BoxDestroy(i) ==
  /\ inst[i].kind = "box"
  /\ inst[i].phase = "initialized"
  /\ inst' = [inst EXCEPT ![i].phase = "destroyed"]
  /\ UNCHANGED <<head, changes, upserted, arg, result, catalog, nav, theme>>


\* ------------------------------------------------------------------------
\* Stack
\* ------------------------------------------------------------------------
\* updateConfigAndSignature of Stack also tags the host element.
StackUpdateConfigAndSignature(o) ==
  Tagged(Configured(o, Prefix.stack, StackConfig(o.inputs)), "stack")

StackGenerateStyle(signature, config) ==
  LET space == Get(config, Key.space)
      recursive == Get(config, Key.recursive)
      splitAfter == Get(config, Key.splitAfter)
  IN <<Lit(".stack[data-pc-stack=\""), Val(signature),
       Lit("\"] { display: flex; flex-direction: column; justify-content: flex-start; } .stack[data-pc-stack=\""),
       Val(signature), Lit("\"] > * { margin-block: 0; }")>>
     \o (IF Truthy(recursive)
         THEN <<Lit(".stack[data-pc-stack=\""), Val(signature),
                Lit("\"] * + * { margin-block-start: "), Val(ToStr(space)), Lit("; }")>>
         ELSE <<Lit(".stack[data-pc-stack=\""), Val(signature),
                Lit("\"] > * + * { margin-block-start: "), Val(ToStr(space)), Lit("; }")>>)
     \o (IF Truthy(splitAfter)
         THEN <<Lit(".stack[data-pc-stack=\""), Val(signature),
                Lit("\"]:only-child { block-size: 100%; } .stack[data-pc-stack=\""),
                Val(signature), Lit("\"] > :nth-child("), Val(ToStr(splitAfter)),
                Lit("){ margin-block-end: auto; }")>>
         ELSE <<Lit("")>>)

\* updateStyle returning before it reaches injectStyle.
StackUpdateStyle_NoUpsert(o, h) == NoEffect(o, h)

StackUpdateStyle(o, h) ==
  IF o.config = NoConfig \/ ~Truthy(o.ident) THEN NoEffect(o, h)
  ELSE Injected(o, h, "pc-stack", StackGenerateStyle(o.ident.s, o.config))

\* The body of ngOnChanges, once the framework has set the input `name`.
StackOnChanges(o, name, h) ==
  IF ~Truthy(o.ident) THEN NoEffect(o, h)
  ELSE IF name \in {"space", "recursive"}
  THEN StackUpdateStyle(StackUpdateConfigAndSignature(o), h)
  ELSE NoEffect(o, h)

StackCreate(i) ==
  /\ CanCreate(i)
  /\ inst' = [inst EXCEPT ![i] = NewInstance("stack", StackDefaults)]
  /\ UNCHANGED <<head, changes, upserted, arg, result, catalog, nav, theme>>

StackNgOnInit(i) ==
  /\ inst[i].kind = "stack"
  /\ inst[i].phase = "constructed"
  /\ Commit(i, Initialized(StackUpdateStyle(StackUpdateConfigAndSignature(inst[i]), head)))
  /\ UNCHANGED changes

StackNgOnChanges(i, name, v) ==
  /\ CanChange(i, "stack", name, v)
  /\ Commit(i, StackOnChanges(SetInput(inst[i], name, v), name, head))
  /\ changes' = changes + 1

StackNgOnDestroy(i) ==
  /\ inst[i].kind = "stack"
  /\ inst[i].phase = "initialized"
  /\ inst' = [inst EXCEPT ![i].phase = "destroyed", ![i].host.tag = Null,
              ![i].host.classes = @ \ {"stack"}]
  /\ UNCHANGED <<head, changes, upserted, arg, result, catalog, nav, theme>>

\* ------------------------------------------------------------------------
\* Grid
\* ------------------------------------------------------------------------
GridUpdateConfigAndSignature(o) == Configured(o, Prefix.grid, GridConfig(o.inputs))

GridGenerateStyle(signature, config) ==
  LET min == Get(config, Key.min)
      space == Get(config, Key.space)
  IN <<Lit(".grid[data-pc-grid=\""), Val(signature),
       Lit("\"] { display: grid; grid-gap: "), Val(ToStr(space)),
       Lit("; align-items: stretch; } @supports (width: min("), Val(ToStr(min)),
       Lit(", 100%)) { .grid[data-pc-grid=\""), Val(signature),
       Lit("\"] { grid-template-columns: repeat(auto-fit, minmax(min("),
       Val(ToStr(min)), Lit(", 100%), 1fr)); } }")>>

GridUpdateStyle(o, h) ==
  IF o.config = NoConfig \/ ~Truthy(o.ident) THEN NoEffect(o, h)
  ELSE Injected(Tagged(o, "grid"), h, "pc-grid", GridGenerateStyle(o.ident.s, o.config))

\* Faulty variant: ngOnChanges without the test of this.ident.
GridOnChanges_Unguarded(o, name, h) ==
  IF name \in {"min", "space"}
  THEN GridUpdateStyle(GridUpdateConfigAndSignature(o), h)
  ELSE NoEffect(o, h)

\* The body of ngOnChanges, once the framework has set the input `name`.
GridOnChanges(o, name, h) ==
  IF ~Truthy(o.ident) THEN NoEffect(o, h)
  ELSE IF name \in {"min", "space"}
  THEN GridUpdateStyle(GridUpdateConfigAndSignature(o), h)
  ELSE NoEffect(o, h)

GridCreate(i) ==
  /\ CanCreate(i)
  /\ inst' = [inst EXCEPT ![i] = NewInstance("grid", GridDefaults)]
  /\ UNCHANGED <<head, changes, upserted, arg, result, catalog, nav, theme>>

GridNgOnInit(i) ==
  /\ inst[i].kind = "grid"
  /\ inst[i].phase = "constructed"
  /\ Commit(i, Initialized(GridUpdateStyle(GridUpdateConfigAndSignature(inst[i]), head)))
  /\ UNCHANGED changes

GridNgOnChanges(i, name, v) ==
  /\ CanChange(i, "grid", name, v)
  /\ Commit(i, GridOnChanges(SetInput(inst[i], name, v), name, head))
  /\ changes' = changes + 1

\* Faulty variant: ngOnDestroy also removes the style node of its signature.
GridNgOnDestroy_RemovesStyle(i) ==
  /\ inst[i].kind = "grid"
  /\ inst[i].phase = "initialized"
  /\ inst' = [inst EXCEPT ![i].phase = "destroyed", ![i].host.tag = Null,
                          ![i].host.classes = @ \ {"grid"}]
  /\ head' = SelectSeq(head, LAMBDA n : ~(n.generatedBy = "pc-grid" /\ n.signature = inst[i].ident.s))
  /\ UNCHANGED <<changes, upserted, arg, result, catalog, nav, theme>>

GridNgOnDestroy(i) ==
  /\ inst[i].kind = "grid"
  /\ inst[i].phase = "initialized"
  /\ inst' = [inst EXCEPT ![i].phase = "destroyed", ![i].host.tag = Null,
                          ![i].host.classes = @ \ {"grid"}]
  /\ UNCHANGED <<head, changes, upserted, arg, result, catalog, nav, theme>>

\* ------------------------------------------------------------------------
\* Container
\* ------------------------------------------------------------------------
ContainerUpdateConfigAndSignature(o) == Configured(o, Prefix.container, ContainerConfig(o.inputs))

ContainerGenerateStyle(signature, config) ==
  LET name == Get(config, Key.name)
  IN <<Lit(".container[data-pc-container=\""), Val(signature), Lit("\"] {")>>
     \o (IF Truthy(name) THEN <<Lit("container-name: "), Val(ToStr(name)), Lit(";")>>
         ELSE <<Lit("")>>)
     \o <<Lit("container-type: inline-size; }")>>

ContainerUpdateStyle(o, h) ==
  IF o.config = NoConfig \/ ~Truthy(o.ident) THEN NoEffect(o, h)
  ELSE Injected(Tagged(o, "container"), h, "pc-container", ContainerGenerateStyle(o.ident.s, o.config))

\* The body of ngOnChanges, once the framework has set the input `name`.
ContainerOnChanges(o, name, h) ==
  IF ~Truthy(o.ident) THEN NoEffect(o, h)
  ELSE IF name \in {"name"}
  THEN ContainerUpdateStyle(ContainerUpdateConfigAndSignature(o), h)
  ELSE NoEffect(o, h)

ContainerCreate(i) ==
  /\ CanCreate(i)
  /\ inst' = [inst EXCEPT ![i] = NewInstance("container", ContainerDefaults)]
  /\ UNCHANGED <<head, changes, upserted, arg, result, catalog, nav, theme>>

ContainerNgOnInit(i) ==
  /\ inst[i].kind = "container"
  /\ inst[i].phase = "constructed"
  /\ Commit(i, Initialized(ContainerUpdateStyle(ContainerUpdateConfigAndSignature(inst[i]), head)))
  /\ UNCHANGED changes

ContainerNgOnChanges(i, name, v) ==
  /\ CanChange(i, "container", name, v)
  /\ Commit(i, ContainerOnChanges(SetInput(inst[i], name, v), name, head))
  /\ changes' = changes + 1

ContainerNgOnDestroy(i) ==
  /\ inst[i].kind = "container"
  /\ inst[i].phase = "initialized"
  /\ inst' = [inst EXCEPT ![i].phase = "destroyed", ![i].host.tag = Null,
                          ![i].host.classes = @ \ {"container"}]
  /\ UNCHANGED <<head, changes, upserted, arg, result, catalog, nav, theme>>

\* ------------------------------------------------------------------------
\* Cover
\* ------------------------------------------------------------------------
CoverUpdateConfigAndSignature(o) == Configured(o, Prefix.cover, CoverConfig(o.inputs))

CoverGenerateStyle(signature, config) ==
  LET centered == Get(config, Key.centered)
      space == Get(config, Key.space)
      minHeight == Get(config, Key.minHeight)
      noPad == Get(config, Key.noPad)
  IN <<Lit(".cover[data-pc-cover=\""), Val(signature),
       Lit("\"] { display: flex; flex-direction: column; min-block-size: "),
       Val(ToStr(minHeight)), Lit("; padding: "),
       (IF Truthy(noPad) THEN Lit("0") ELSE Val(ToStr(space))),
       Lit("; } .cover[data-pc-cover=\""), Val(signature),
       Lit("\"] > * { margin-block: "), Val(ToStr(space)),
       Lit("; } .cover[data-pc-cover=\""), Val(signature),
       Lit("\"] > :first-child:not("), Val(ToStr(centered)),
       Lit(") { margin-block-start: 0; } .cover[data-pc-cover=\""), Val(signature),
       Lit("\"] > :last-child:not("), Val(ToStr(centered)),
       Lit(") { margin-block-end: 0; } .cover[data-pc-cover=\""), Val(signature),
       Lit("\"] > "), Val(ToStr(centered)), Lit(" { margin-block: auto; }")>>

CoverUpdateStyle(o, h) ==
  IF o.config = NoConfig \/ ~Truthy(o.ident) THEN NoEffect(o, h)
  ELSE Injected(Tagged(o, "cover"), h, "pc-cover", CoverGenerateStyle(o.ident.s, o.config))

\* The body of ngOnChanges, once the framework has set the input `name`.
CoverOnChanges(o, name, h) ==
  IF ~Truthy(o.ident) THEN NoEffect(o, h)
  ELSE IF name \in {"centered", "space", "minHeight", "noPad"}
  THEN CoverUpdateStyle(CoverUpdateConfigAndSignature(o), h)
  ELSE NoEffect(o, h)

CoverCreate(i) ==
  /\ CanCreate(i)
  /\ inst' = [inst EXCEPT ![i] = NewInstance("cover", CoverDefaults)]
  /\ UNCHANGED <<head, changes, upserted, arg, result, catalog, nav, theme>>

CoverNgOnInit(i) ==
  /\ inst[i].kind = "cover"
  /\ inst[i].phase = "constructed"
  /\ Commit(i, Initialized(CoverUpdateStyle(CoverUpdateConfigAndSignature(inst[i]), head)))
  /\ UNCHANGED changes

CoverNgOnChanges(i, name, v) ==
  /\ CanChange(i, "cover", name, v)
  /\ Commit(i, CoverOnChanges(SetInput(inst[i], name, v), name, head))
  /\ changes' = changes + 1

CoverNgOnDestroy(i) ==
  /\ inst[i].kind = "cover"
  /\ inst[i].phase = "initialized"
  /\ inst' = [inst EXCEPT ![i].phase = "destroyed", ![i].host.tag = Null,
                          ![i].host.classes = @ \ {"cover"}]
  /\ UNCHANGED <<head, changes, upserted, arg, result, catalog, nav, theme>>

\* ------------------------------------------------------------------------
\* Switcher
\* ------------------------------------------------------------------------
SwitcherUpdateConfigAndSignature(o) == Configured(o, Prefix.switcher, SwitcherConfig(o.inputs))

SwitcherGenerateStyle(signature, config) ==
  LET gap == Get(config, Key.gap)
      threshold == Get(config, Key.threshold)
      limit == Get(config, Key.limit)
  IN <<Lit(".switcher[data-pc-switcher=\""), Val(signature),
       Lit("\"]{ display: flex; flex-wrap: wrap; gap: "), Val(ToStr(gap)),
       Lit("; } .switcher[data-pc-switcher=\""), Val(signature),
       Lit("\"] > * { flex-grow: 1; flex-basis: calc(("), Val(ToStr(threshold)),
       Lit(" - 100%) * 999); } .switcher[data-pc-switcher=\""), Val(signature),
       Lit("\"] > :nth-child(n+"), Val(Decimal(limit.n + 1)),
       Lit("), .switcher[data-pc-switcher=\""), Val(signature),
       Lit("\"] > :nth-child(n+"), Val(Decimal(limit.n + 1)),
       Lit(") ~ * { flex-basis: 100%; }")>>

\* updateStyle of Switcher injects the style and writes nothing on the host.
SwitcherUpdateStyle(o, h) ==
  IF o.config = NoConfig \/ ~Truthy(o.ident) THEN NoEffect(o, h)
  ELSE Injected(o, h, "pc-switcher", SwitcherGenerateStyle(o.ident.s, o.config))

\* The body of ngOnChanges, once the framework has set the input `name`.
SwitcherOnChanges(o, name, h) ==
  IF ~Truthy(o.ident) THEN NoEffect(o, h)
  ELSE IF name \in {"threshold", "gap", "limit"}
  THEN SwitcherUpdateStyle(SwitcherUpdateConfigAndSignature(o), h)
  ELSE NoEffect(o, h)

SwitcherCreate(i) ==
  /\ CanCreate(i)
  /\ inst' = [inst EXCEPT ![i] = NewInstance("switcher", SwitcherDefaults)]
  /\ UNCHANGED <<head, changes, upserted, arg, result, catalog, nav, theme>>

SwitcherNgOnInit(i) ==
  /\ inst[i].kind = "switcher"
  /\ inst[i].phase = "constructed"
  /\ Commit(i, Initialized(SwitcherUpdateStyle(SwitcherUpdateConfigAndSignature(inst[i]), head)))
  /\ UNCHANGED changes

SwitcherNgOnChanges(i, name, v) ==
  /\ CanChange(i, "switcher", name, v)
  /\ Commit(i, SwitcherOnChanges(SetInput(inst[i], name, v), name, head))
  /\ changes' = changes + 1

\* Switcher declares no ngOnDestroy.
SwitcherDestroy(i) ==
  /\ inst[i].kind = "switcher"
  /\ inst[i].phase = "initialized"
  /\ inst' = [inst EXCEPT ![i].phase = "destroyed"]
  /\ UNCHANGED <<head, changes, upserted, arg, result, catalog, nav, theme>>

\* ------------------------------------------------------------------------
\* Center
\* ------------------------------------------------------------------------
CenterUpdateConfigAndSignature(o) == Configured(o, Prefix.center, CenterConfig(o.inputs))

CenterGenerateStyle(signature, config) ==
  LET maxWidth == Get(config, Key.maxWidth)
      centerText == Get(config, Key.centerText)
      intrinsic == Get(config, Key.intrinsic)
      gutterWidth == Get(config, Key.gutterWidth)
  IN <<Lit(".center[data-pc-center=\""), Val(signature),
       Lit("\"] { display: block; unicode-bidi: isolate; box-sizing: content-box; margin-inline: auto;")>>
     \o (IF ~IsNullish(maxWidth)
         THEN <<Lit("max-inline-size: "), Val(ToStr(maxWidth)), Lit(";")>>
         ELSE <<Lit("")>>)
     \o <<Lit(IF Truthy(centerText) THEN "text-align: center;" ELSE "")>>
     \o <<Lit(IF Truthy(intrinsic)
              THEN "display:flex; flex-direction: column; align-items: center;" ELSE "")>>
     \o (IF ~IsNullish(gutterWidth)
         THEN <<Lit("padding-inline-start: "), Val(ToStr(gutterWidth)),
                Lit("; padding-inline-end: "), Val(ToStr(gutterWidth)), Lit(";")>>
         ELSE <<Lit("")>>)
     \o <<Lit("}")>>

CenterUpdateStyle(o, h) ==
  IF o.config = NoConfig \/ ~Truthy(o.ident) THEN NoEffect(o, h)
  ELSE Injected(Tagged(o, "center"), h, "pc-center", CenterGenerateStyle(o.ident.s, o.config))

\* The body of ngOnChanges, once the framework has set the input `name`.
CenterOnChanges(o, name, h) ==
  IF ~Truthy(o.ident) THEN NoEffect(o, h)
  ELSE IF name \in {"maxWidth", "centerText", "intrinsic", "gutterWidth"}
  THEN CenterUpdateStyle(CenterUpdateConfigAndSignature(o), h)
  ELSE NoEffect(o, h)

CenterCreate(i) ==
  /\ CanCreate(i)
  /\ inst' = [inst EXCEPT ![i] = NewInstance("center", CenterDefaults)]
  /\ UNCHANGED <<head, changes, upserted, arg, result, catalog, nav, theme>>

CenterNgOnInit(i) ==
  /\ inst[i].kind = "center"
  /\ inst[i].phase = "constructed"
  /\ Commit(i, Initialized(CenterUpdateStyle(CenterUpdateConfigAndSignature(inst[i]), head)))
  /\ UNCHANGED changes

CenterNgOnChanges(i, name, v) ==
  /\ CanChange(i, "center", name, v)
  /\ Commit(i, CenterOnChanges(SetInput(inst[i], name, v), name, head))
  /\ changes' = changes + 1

\* Center declares no ngOnDestroy.
CenterDestroy(i) ==
  /\ inst[i].kind = "center"
  /\ inst[i].phase = "initialized"
  /\ inst' = [inst EXCEPT ![i].phase = "destroyed"]
  /\ UNCHANGED <<head, changes, upserted, arg, result, catalog, nav, theme>>

\* ------------------------------------------------------------------------
\* Reel
\* ------------------------------------------------------------------------
ReelUpdateConfigAndSignature(o) == Configured(o, Prefix.reel, ReelConfig(o.inputs))

ReelGenerateStyle(signature, config) ==
  LET itemWidth == Get(config, Key.itemWidth)
      space == Get(config, Key.space)
      height == Get(config, Key.height)
      noBar == Get(config, Key.noBar)
  IN <<Lit(".reel[data-pc-reel=\""), Val(signature),
       Lit("\"] { display: flex; unicode-bidi: isolate; block-size: "),
       Val(ToStr(height)), Lit("; overflow-x: "),
       Lit(IF Truthy(noBar) THEN "hidden" ELSE "auto"),
       Lit("; overflow-y: hidden; scrollbar-color: #fff #000; } .reel[data-pc-reel=\""),
       Val(signature), Lit("\"]::-webkit-scrollbar { block-size: 1rem; } .reel[data-pc-reel=\""),
       Val(signature), Lit("\"]::-webkit-scrollbar-track { background-color: #000; } .reel[data-pc-reel=\""),
       Val(signature),
       Lit("\"]::-webkit-scrollbar-thumb { background-color: #000; background-image: linear-gradient(#000 0, #000 0.25rem, #fff 0.25rem, #fff 0.75rem, #000 0.75rem); } .reel[data-pc-reel=\""),
       Val(signature), Lit("\"] > * { flex: 0 0 "), Val(ToStr(itemWidth)),
       Lit("; margin: "), Val(ToStr(space)),
       Lit("; margin-inline-end: 0; } .reel[data-pc-reel=\""), Val(signature),
       Lit("\"] > img { block-size: 100%; flex-basis: auto; width: auto; } .reel[data-pc-reel=\""),
       Val(signature), Lit("\"] > * + * { margin-inline-start: "), Val(ToStr(space)),
       Lit("; } .reel[data-pc-reel=\""), Val(signature),
       Lit("\"].overflowing { padding-block-end: 1rem; }")>>

\* updateStyle of Reel also mirrors the role input on the host element.
ReelUpdateStyle(o, h) ==
  IF o.config = NoConfig \/ ~Truthy(o.ident) THEN NoEffect(o, h)
  ELSE Injected([o EXCEPT !.host.classes = @ \cup {"reel"}, !.host.tag = o.ident,
                        !.host.role = IF Truthy(o.inputs.role) THEN o.inputs.role
                                      ELSE Null], h, "pc-reel", ReelGenerateStyle(o.ident.s, o.config))

\* The body of ngOnChanges, once the framework has set the input `name`.
ReelOnChanges(o, name, h) ==
  IF ~Truthy(o.ident) THEN NoEffect(o, h)
  ELSE IF name \in {"itemWidth", "space", "height", "noBar", "role"}
  THEN ReelUpdateStyle(ReelUpdateConfigAndSignature(o), h)
  ELSE NoEffect(o, h)

ReelCreate(i) ==
  /\ CanCreate(i)
  /\ inst' = [inst EXCEPT ![i] = NewInstance("reel", ReelDefaults)]
  /\ UNCHANGED <<head, changes, upserted, arg, result, catalog, nav, theme>>

\* ngOnInit of Reel also starts the resize and mutation observers.
ReelNgOnInit(i) ==
  /\ inst[i].kind = "reel"
  /\ inst[i].phase = "constructed"
  /\ Commit(i, Observing(Initialized(ReelUpdateStyle(ReelUpdateConfigAndSignature(inst[i]), head))))
  /\ UNCHANGED changes

ReelNgOnChanges(i, name, v) ==
  /\ CanChange(i, "reel", name, v)
  /\ Commit(i, ReelOnChanges(SetInput(inst[i], name, v), name, head))
  /\ changes' = changes + 1

\* ngOnDestroy of Reel disconnects the observers and leaves the host as it is.
ReelNgOnDestroy(i) ==
  /\ inst[i].kind = "reel"
  /\ inst[i].phase = "initialized"
  /\ inst' = [inst EXCEPT ![i].phase = "destroyed", ![i].observing = FALSE]
  /\ UNCHANGED <<head, changes, upserted, arg, result, catalog, nav, theme>>

\* ------------------------------------------------------------------------
\* Specification
\* ------------------------------------------------------------------------
Init ==
  /\ head = <<>>
  /\ inst = [i \in Instances |-> Absent]
  /\ changes = 0
  /\ upserted = {}
  /\ arg = Undefined
  /\ result = NotApplied
  /\ catalog = NotInstantiated
  /\ nav = NotInstantiated
  /\ theme = NotInstantiated

Next ==
  \E i \in Instances :
     \/ BoxCreate(i)
     \/ BoxNgOnInit(i)
     \/ \E name \in DOMAIN BoxValues : \E v \in BoxValues[name] : BoxNgOnChanges(i, name, v)
     \/ BoxDestroy(i)
     \/ StackCreate(i)
     \/ StackNgOnInit(i)
     \/ \E name \in DOMAIN StackValues : \E v \in StackValues[name] : StackNgOnChanges(i, name, v)
     \/ StackNgOnDestroy(i)
     \/ GridCreate(i)
     \/ GridNgOnInit(i)
     \/ \E name \in DOMAIN GridValues : \E v \in GridValues[name] : GridNgOnChanges(i, name, v)
     \/ GridNgOnDestroy(i)
     \/ ContainerCreate(i)
     \/ ContainerNgOnInit(i)
     \/ \E name \in DOMAIN ContainerValues : \E v \in ContainerValues[name] : ContainerNgOnChanges(i, name, v)
     \/ ContainerNgOnDestroy(i)
     \/ CoverCreate(i)
     \/ CoverNgOnInit(i)
     \/ \E name \in DOMAIN CoverValues : \E v \in CoverValues[name] : CoverNgOnChanges(i, name, v)
     \/ CoverNgOnDestroy(i)
     \/ SwitcherCreate(i)
     \/ SwitcherNgOnInit(i)
     \/ \E name \in DOMAIN SwitcherValues : \E v \in SwitcherValues[name] : SwitcherNgOnChanges(i, name, v)
     \/ SwitcherDestroy(i)
     \/ CenterCreate(i)
     \/ CenterNgOnInit(i)
     \/ \E name \in DOMAIN CenterValues : \E v \in CenterValues[name] : CenterNgOnChanges(i, name, v)
     \/ CenterDestroy(i)
     \/ ReelCreate(i)
     \/ ReelNgOnInit(i)
     \/ \E name \in DOMAIN ReelValues : \E v \in ReelValues[name] : ReelNgOnChanges(i, name, v)
     \/ ReelNgOnDestroy(i)

Spec == Init /\ [][Next]_vars

\* ------------------------------------------------------------------------
\* sanitizeCssValue applied on its own
\* ------------------------------------------------------------------------
\* The longest string handed to a helper.
MaxLen == 3

\* Code units of the sample strings: a 1 space - ( and ; { } < > " '
SampleChars == {97, 49, 32, 45, 40, 59, 123, 125, 60, 62, 34, 39}

\* The strings of at most n sample code units.
Strings(n) == UNION {[1..k -> SampleChars] : k \in 0..n}

\* The values handed to a helper: strings and the non-string values a
\* binding can carry.
SampleValues ==
  {Str(s) : s \in Strings(MaxLen)}
    \cup {Null, Undefined, Bool(TRUE), Bool(FALSE), Num(0), Num(42)}

InitSanitize ==
  /\ head = <<>>
  /\ inst = [i \in Instances |-> Absent]
  /\ changes = 0
  /\ upserted = {}
  /\ arg \in SampleValues
  /\ result = NotApplied
  /\ catalog = NotInstantiated
  /\ nav = NotInstantiated
  /\ theme = NotInstantiated

\* result = sanitizeCssValue(arg)
Sanitize ==
  /\ result = NotApplied
  /\ result' = sanitizeCssValue(arg)
  /\ UNCHANGED <<head, inst, changes, upserted, arg, catalog, nav, theme>>

NextSanitize == Sanitize

SpecSanitize == InitSanitize /\ [][NextSanitize]_vars

\* ------------------------------------------------------------------------
\* Notions the properties below are stated in
\* ------------------------------------------------------------------------
\* The component name each kind passes to injectStyle.
ComponentOf ==
  [box |-> "pc-box", stack |-> "pc-stack", grid |-> "pc-grid",
   container |-> "pc-container", cover |-> "pc-cover",
   switcher |-> "pc-switcher", center |-> "pc-center", reel |-> "pc-reel"]

\* A Registered instance: ngOnInit has run and the component is alive.
Registered(i) == inst[i].phase = "initialized"

\* The <<component, signature>> keys of the style nodes of a document head.
KeysOf(h) == {<<h[k].generatedBy, h[k].signature>> : k \in DOMAIN h}

\* The style nodes carrying the key of instance i.
NodesOf(i) ==
  {k \in DOMAIN head :
     /\ head[k].generatedBy = ComponentOf[inst[i].kind]
     /\ head[k].signature = inst[i].ident.s}

\* The configuration record the current inputs of a component amount to.
ConfigOf(o) ==
  CASE o.kind = "box" -> BoxConfig(o.inputs)
    [] o.kind = "stack" -> StackConfig(o.inputs)
    [] o.kind = "grid" -> GridConfig(o.inputs)
    [] o.kind = "container" -> ContainerConfig(o.inputs)
    [] o.kind = "cover" -> CoverConfig(o.inputs)
    [] o.kind = "switcher" -> SwitcherConfig(o.inputs)
    [] o.kind = "center" -> CenterConfig(o.inputs)
    [] o.kind = "reel" -> ReelConfig(o.inputs)

\* The identifier of the current inputs of a component.
IdentOf(o) == Str(Prefix[o.kind] \o SignatureOf[ConfigOf(o)])

\* The style text the kind's template yields for the component's own record.
StyleOf(o) ==
  CASE o.kind = "box" -> BoxGenerateStyle(o.ident.s, o.config)
    [] o.kind = "stack" -> StackGenerateStyle(o.ident.s, o.config)
    [] o.kind = "grid" -> GridGenerateStyle(o.ident.s, o.config)
    [] o.kind = "container" -> ContainerGenerateStyle(o.ident.s, o.config)
    [] o.kind = "cover" -> CoverGenerateStyle(o.ident.s, o.config)
    [] o.kind = "switcher" -> SwitcherGenerateStyle(o.ident.s, o.config)
    [] o.kind = "center" -> CenterGenerateStyle(o.ident.s, o.config)
    [] o.kind = "reel" -> ReelGenerateStyle(o.ident.s, o.config)

\* The allow-list: alphanumerics and . ( ) % space - + * /
InAllowList(c) ==
  \/ c \in 48..57 \cup 65..90 \cup 97..122
  \/ c \in {46, 40, 41, 37, 32, 45, 43, 42, 47}

\* The characters that end a declaration or a rule: { } ; < > " '
Breaking == {123, 125, 59, 60, 62, 34, 39}

\* ------------------------------------------------------------------------
\* Properties
\* ------------------------------------------------------------------------
\* C1: the document head never holds two style nodes with the same kind
\* (data-generated-by) and the same signature (data-signature).
OneStyleNodePerKey ==
  \A a, b \in DOMAIN head :
     (/\ head[a].generatedBy = head[b].generatedBy
      /\ head[a].signature = head[b].signature) => a = b

\* C1 case: two Registered instances of one kind have upserted the same key,
\* the second with another record, and the head holds one node for it.
OneStyleNodePerKey_Reupserted ==
  \E i, j \in Instances :
     /\ i # j
     /\ Registered(i) /\ Registered(j)
     /\ inst[i].kind = inst[j].kind
     /\ inst[i].ident = inst[j].ident
     /\ inst[i].config # inst[j].config
     /\ Len(head) = 1

\* C2: Registered instances of one kind with equal configuration records
\* are served by exactly one style node.
IdenticalInstancesShareOneNode ==
  \A i, j \in Instances :
     (/\ i # j
      /\ Registered(i) /\ Registered(j)
      /\ inst[i].kind = inst[j].kind
      /\ inst[i].config = inst[j].config) => Cardinality(NodesOf(i)) = 1

\* C2 case: two Registered instances of one kind with equal records, the
\* second slot initialized with a node already in the head.
IdenticalInstancesShareOneNode_Two ==
  /\ Registered(1) /\ Registered(2)
  /\ inst[1].kind = inst[2].kind
  /\ inst[1].config = inst[2].config
  /\ inst[1].config # NoConfig
  /\ Cardinality(NodesOf(2)) = 1

\* C3: every character of an interpolated piece of a style text belongs to
\* the allow-list; none is a ; { or }.
StyleTextHasOnlyAllowListed ==
  \A k \in DOMAIN head :
     \A p \in DOMAIN head[k].textContent :
        \A c \in DOMAIN head[k].textContent[p].val :
           InAllowList(head[k].textContent[p].val[c])

\* C4: sanitizeCssValue of a string is the string's allow-listed characters
\* in their order, and no result holds { } ; < > or a quote.
SanitizeKeepsAllowListed ==
  result # NotApplied =>
    /\ \A k \in DOMAIN result : result[k] \notin Breaking
    /\ arg.t = "string" =>
         LET kept == {p \in DOMAIN arg.s : InAllowList(arg.s[p])}
         IN /\ Len(result) = Cardinality(kept)
            /\ \A p \in kept : result[Cardinality({q \in kept : q <= p})] = arg.s[p]

\* C4 case: a string with two breaking characters has been sanitized and
\* something of it is left.
SanitizeKeepsAllowListed_Stripped ==
  /\ result # NotApplied
  /\ arg.t = "string"
  /\ \E p, q \in DOMAIN arg.s : p < q /\ arg.s[p] \in Breaking /\ arg.s[q] \in Breaking
  /\ result # <<>>

DestroyedHostIsUntagged ==
  \A i \in Instances :
     inst[i].phase = "destroyed" =>
        inst[i].host.tag = Null /\ inst[i].host.classes = {}

\* C8: when an input of a Registered, tagged instance changes, the instance's
\* signature and host tag become those of its current inputs.
InputChangeReRegisters ==
  [][\A i \in Instances :
        (/\ Registered(i)
         /\ inst[i].host.tag = inst[i].ident
         /\ inst'[i].inputs # inst[i].inputs) =>
           /\ inst'[i].ident = IdentOf(inst'[i])
           /\ inst'[i].host.tag = inst'[i].ident]_vars

\* C9: the host of a Registered instance carries the instance's current
\* signature, and that signature scopes the selector of its style node.
RegisteredHostCarriesSignature ==
  \A i \in Instances :
     Registered(i) =>
        /\ inst[i].host.tag = inst[i].ident
        /\ \A k \in NodesOf(i) :
              \E p \in DOMAIN head[k].textContent :
                 head[k].textContent[p] = Val(inst[i].ident.s)

\* C10: the style node of a Registered instance holds the text the kind's
\* template yields for that instance's own configuration record.
EntryMatchesEveryInstance ==
  \A i \in Instances :
     Registered(i) =>
        \A k \in NodesOf(i) : head[k].textContent = StyleOf(inst[i])

\* ------------------------------------------------------------------------
\* injectStyle called on its own
\* ------------------------------------------------------------------------
\* The number of injectStyle calls of a run.
MaxUpserts == 3

\* The kinds, records and style texts of the calls.
RegistryKinds == {"box", "stack"}
RegistryConfigs ==
  {<< <<Key.space, Str(Text.s1)>> >>, << <<Key.space, Str(Text.s2)>> >>}
RegistryStyles == {<<Lit("a")>>, <<Lit("b")>>}

InitRegistry ==
  /\ head = <<>>
  /\ inst = [i \in Instances |-> Absent]
  /\ changes = 0
  /\ upserted = {}
  /\ arg = <<>>
  /\ result = NotApplied
  /\ catalog = NotInstantiated
  /\ nav = NotInstantiated
  /\ theme = NotInstantiated

\* injectStyle('pc-<kind>', `pc-<kind>-${generateSignature(config)}`, style);
\* arg is the log of the calls.
Upsert(kind, config, style) ==
  /\ Len(arg) < MaxUpserts
  /\ head' = injectStyle(head, ComponentOf[kind],
                         Prefix[kind] \o generateSignature(config), style)
  /\ arg' = Append(arg, [kind |-> kind, config |-> config,
                         component |-> ComponentOf[kind],
                         signature |-> Prefix[kind] \o generateSignature(config),
                         style |-> style])
  /\ upserted' = upserted \cup
                   {<<ComponentOf[kind], Prefix[kind] \o generateSignature(config)>>}
  /\ UNCHANGED <<inst, changes, result, catalog, nav, theme>>

NextRegistry ==
  \E kind \in RegistryKinds : \E config \in RegistryConfigs :
     \E style \in RegistryStyles : Upsert(kind, config, style)

SpecRegistry == InitRegistry /\ [][NextRegistry]_vars

\* The style nodes of the head carrying the key of a logged call.
NodesFor(call) ==
  {k \in DOMAIN head :
     head[k].generatedBy = call.component /\ head[k].signature = call.signature}

\* Two logged calls are for the same key.
SameKey(a, b) == a.component = b.component /\ a.signature = b.signature

\* C11: the node of a key exists and holds the style text of the most recent
\* call for that key.
LastWriteWins ==
  \A n \in DOMAIN arg :
     (\A m \in DOMAIN arg : m > n => ~SameKey(arg[m], arg[n])) =>
        /\ NodesFor(arg[n]) # {}
        /\ \A k \in NodesFor(arg[n]) : head[k].textContent = arg[n].style

\* C11 case: a key has been upserted, another key after it, and the first key
\* again with another text.
LastWriteWins_Overwritten ==
  /\ Len(arg) = 3
  /\ SameKey(arg[1], arg[3]) /\ ~SameKey(arg[1], arg[2])
  /\ arg[1].style # arg[3].style
  /\ Len(head) = 2

\* C12: a call equal to the call before it leaves the head as it is, with a
\* single node for the key.
UpsertTwiceIsUpsertOnce ==
  [][(/\ arg # <<>>
      /\ Len(arg') = Len(arg) + 1
      /\ arg'[Len(arg')] = arg[Len(arg)]) =>
        /\ head' = head
        /\ Cardinality(NodesFor(arg[Len(arg)])) = 1]_vars

\* C12 case: the same call has been made twice in a row.
UpsertTwiceIsUpsertOnce_Repeated ==
  /\ Len(arg) >= 2
  /\ arg[Len(arg)] = arg[Len(arg) - 1]
  /\ Cardinality(NodesFor(arg[Len(arg)])) = 1

\* C13: a step of an instance leaves every style node whose key is not the
\* instance's new key in place and unchanged.
OtherEntriesUntouched ==
  [][\A i \in Instances :
        inst'[i] # inst[i] =>
           \A k \in DOMAIN head :
              ~(/\ head[k].generatedBy = ComponentOf[inst'[i].kind]
                /\ head[k].signature = inst'[i].ident.s) =>
                 k \in DOMAIN head' /\ head'[k] = head[k]]_vars

\* C13 case: a Registered instance has moved to a new signature and the node
\* of its previous signature is still in the head, beside the new one.
OtherEntriesUntouched_Moved ==
  \E i \in Instances :
     /\ Registered(i)
     /\ \A j \in Instances \ {i} : inst[j].phase = "absent"
     /\ Len(head) = 2
     /\ head[2].signature = inst[i].ident.s
     /\ head[1].signature # inst[i].ident.s
     /\ head[1].generatedBy = head[2].generatedBy

\* C14: calls of different kinds with the same record have two distinct
\* nodes, and a call leaves the nodes of the other kinds as they are.
KindsDoNotCollide ==
  /\ [](\A m, n \in DOMAIN arg :
          (arg[m].kind # arg[n].kind /\ arg[m].config = arg[n].config) =>
             /\ NodesFor(arg[m]) # {} /\ NodesFor(arg[n]) # {}
             /\ NodesFor(arg[m]) \cap NodesFor(arg[n]) = {})
  /\ [][Len(arg') = Len(arg) + 1 =>
          \A k \in DOMAIN head :
             head[k].generatedBy # arg'[Len(arg')].component =>
                k \in DOMAIN head' /\ head'[k] = head[k]]_vars

\* C14 case: a box and a stack have upserted for the same record and the head
\* holds a node for each.
KindsDoNotCollide_Two ==
  /\ Len(arg) >= 2
  /\ arg[1].kind # arg[2].kind
  /\ arg[1].config = arg[2].config
  /\ Len(head) = 2

\* ------------------------------------------------------------------------
\* generateSignature applied on its own
\* ------------------------------------------------------------------------
\* The most entries a record of the corpus has.
MaxEntries == 2

\* The entries of the corpus: a string or null, the string "null" included,
\* under one key, a boolean under a second, a number under a third.
CorpusEntries ==
  ({Key.space} \X {Null, Str(Text.null), Str(Text.s1)})
    \cup ({Key.noPad} \X {Bool(TRUE), Bool(FALSE)})
    \cup ({Key.limit} \X {Num(1), Num(4)})

\* The records of at most n entries, in every insertion order.
Records(n) ==
  UNION {{c \in [1..len -> CorpusEntries] :
            \A a, b \in 1..len : c[a][1] = c[b][1] => a = b} : len \in 0..n}

InitSignature ==
  /\ head = <<>>
  /\ inst = [i \in Instances |-> Absent]
  /\ changes = 0
  /\ upserted = {}
  /\ arg \in Records(MaxEntries) \X Records(MaxEntries)
  /\ result = NotApplied
  /\ catalog = NotInstantiated
  /\ nav = NotInstantiated
  /\ theme = NotInstantiated

\* result = the signatures of the two records of arg
Sign ==
  /\ result = NotApplied
  /\ result' = <<generateSignature(arg[1]), generateSignature(arg[2])>>
  /\ UNCHANGED <<head, inst, changes, upserted, arg, catalog, nav, theme>>

NextSignature == Sign

SpecSignature == InitSignature /\ [][NextSignature]_vars

\* The key/value pairs of a record.
PairsOf(config) == {config[k] : k \in DOMAIN config}

\* C15: two records holding the same key/value pairs, in whatever order,
\* have the same signature.
SignatureIgnoresOrder ==
  (result # NotApplied /\ PairsOf(arg[1]) = PairsOf(arg[2])) =>
     result[1] = result[2]

\* C15 case: two records with the same two pairs in opposite orders have been
\* signed.
SignatureIgnoresOrder_Permuted ==
  /\ result # NotApplied
  /\ Len(arg[1]) = 2
  /\ arg[2] = <<arg[1][2], arg[1][1]>>
  /\ result[1] = result[2]

\* C16: two records of the corpus that differ in a key or a value have
\* different signatures.
DifferentRecordsDifferentSignatures ==
  (result # NotApplied /\ PairsOf(arg[1]) # PairsOf(arg[2])) =>
     result[1] # result[2]

\* ------------------------------------------------------------------------
\* sanitizeCssValue applied to its own result
\* ------------------------------------------------------------------------
\* result = <<sanitizeCssValue(arg), sanitizeCssValue of that string>>
SanitizeTwice ==
  /\ result = NotApplied
  /\ result' = <<sanitizeCssValue(arg), sanitizeCssValue(Str(sanitizeCssValue(arg)))>>
  /\ UNCHANGED <<head, inst, changes, upserted, arg, catalog, nav, theme>>

NextSanitizeTwice == SanitizeTwice

SpecSanitizeTwice == InitSanitize /\ [][NextSanitizeTwice]_vars

\* C17: sanitizing a sanitized string gives that string.
SanitizeIsIdempotent ==
  result # NotApplied => result[2] = result[1]

\* C17 case: a string that loses some of its characters, not all, has been
\* sanitized twice.
SanitizeIsIdempotent_Shortened ==
  /\ result # NotApplied
  /\ arg.t = "string"
  /\ result[1] # <<>>
  /\ Len(result[1]) < Len(arg.s)

\* C18: sanitizeCssValue can be applied to every value, its result is a
\* string, and the result is '' for '', for undefined and for a string of
\* characters outside the allow-list.
SanitizeNeverFails ==
  /\ result = NotApplied => ENABLED Sanitize
  /\ result # NotApplied =>
       /\ \A k \in DOMAIN result : result[k] \in 0..65535
       /\ (\/ arg = Str(<<>>)
           \/ arg = Undefined
           \/ (arg.t = "string" /\ \A p \in DOMAIN arg.s : ~InAllowList(arg.s[p])))
            => result = <<>>

\* C18 case: undefined has been sanitized.
SanitizeNeverFails_Undefined ==
  /\ arg = Undefined
  /\ result = <<>>

\* ------------------------------------------------------------------------
\* hashString run on its own, one loop iteration a step
\* ------------------------------------------------------------------------
\* The longest string hashed; from the fourth character on, h * 33 exceeds
\* 32 bits.
MaxHashLen == 5

\* Code units of the hashed strings: a } and the euro sign (above 255).
HashChars == {97, 125, 8364}

\* result = [h, i, out, done]: the word h and the index i of the loop, the
\* string returned and whether hashString has returned.
InitHash ==
  /\ head = <<>>
  /\ inst = [i \in Instances |-> Absent]
  /\ changes = 0
  /\ upserted = {}
  /\ arg \in {Str(s) : s \in UNION {[1..k -> HashChars] : k \in 0..MaxHashLen}}
  /\ result = [h |-> [hi |-> 0, lo |-> HashSeed], i |-> 0, out |-> <<>>,
               done |-> FALSE]
  /\ catalog = NotInstantiated
  /\ nav = NotInstantiated
  /\ theme = NotInstantiated

\* h = (h * 33) ^ s.charCodeAt(i); i++
HashLoop ==
  /\ ~result.done
  /\ result.i < Len(arg.s)
  /\ result' = [result EXCEPT !.h = HashStep(result.h, arg.s[result.i + 1]),
                              !.i = result.i + 1]
  /\ UNCHANGED <<head, inst, changes, upserted, arg, catalog, nav, theme>>

\* return (h >>> 0).toString(36)
HashReturn ==
  /\ ~result.done
  /\ result.i = Len(arg.s)
  /\ result' = [result EXCEPT !.out = ToBase36(result.h), !.done = TRUE]
  /\ UNCHANGED <<head, inst, changes, upserted, arg, catalog, nav, theme>>

NextHash == HashLoop \/ HashReturn

SpecHash == InitHash /\ [][NextHash]_vars

\* The four bytes of a word, the lowest first.
BytesOf(w) == <<w.lo % 256, w.lo \div 256, w.hi % 256, w.hi \div 256>>

\* The bytes of 33 times a 32-bit number, the carry out of the top dropped.
Times33(b) ==
  LET t1 == b[1] * 33
      t2 == b[2] * 33 + (t1 \div 256)
      t3 == b[3] * 33 + (t2 \div 256)
      t4 == b[4] * 33 + (t3 \div 256)
  IN <<t1 % 256, t2 % 256, t3 % 256, t4 % 256>>

\* Bit k of a natural number.
BitOf(n, k) == (n \div (2 ^ k)) % 2

\* The exclusive or of two numbers below 2^16, bit by bit.
Xor16(a, b) ==
  LET bit(k) == ((BitOf(a, k) + BitOf(b, k)) % 2) * (2 ^ k)
  IN bit(0) + bit(1) + bit(2) + bit(3) + bit(4) + bit(5) + bit(6) + bit(7)
     + bit(8) + bit(9) + bit(10) + bit(11) + bit(12) + bit(13) + bit(14) + bit(15)

\* The bytes of (h * 33) XOR c modulo 2^32, for the bytes b of h.
StepBytes(b, c) ==
  LET m == Times33(b)
      low == Xor16(m[1] + 256 * m[2], c)
  IN <<low % 256, low \div 256, m[3], m[4]>>

\* The number a base 36 numeral stands for, as a word; <<>> stands for 0.
RECURSIVE FromBase36(_)
FromBase36(digits) ==
  IF digits = <<>> THEN [hi |-> 0, lo |-> 0]
  ELSE LET w == FromBase36(SubSeq(digits, 1, Len(digits) - 1))
           d == digits[Len(digits)]
           v == IF d \in 48..57 THEN d - 48 ELSE d - 87
           low == w.lo * 36 + v
       IN [hi |-> w.hi * 36 + (low \div 65536), lo |-> low % 65536]

\* C19: h starts at 5381, every iteration replaces it by (h * 33) XOR the
\* character code modulo 2^32, h stays in [0, 2^32), and the string returned
\* is the base 36 numeral of the final h.
HashIsWrappingDjb2Xor ==
  /\ [](/\ result.i = 0 => result.h = [hi |-> 0, lo |-> 5381]
        /\ result.h.hi \in 0..65535 /\ result.h.lo \in 0..65535
        /\ result.done =>
             /\ result.i = Len(arg.s)
             /\ \A k \in DOMAIN result.out :
                   result.out[k] \in 48..57 \cup 97..122
             /\ FromBase36(result.out) = result.h
             /\ result.out = hashString(arg.s))
  /\ [][result'.i = result.i + 1 =>
          BytesOf(result'.h) = StepBytes(BytesOf(result.h), arg.s[result'.i])]_vars

\* C19 case: a string of MaxHashLen characters has been hashed and the final
\* h has its top bit set, so h * 33 has wrapped and h is negative before
\* `>>> 0`.
HashIsWrappingDjb2Xor_Wrapped ==
  /\ result.done
  /\ Len(arg.s) = MaxHashLen
  /\ result.h.hi >= 32768

\* ------------------------------------------------------------------------
\* Input changes before ngOnInit
\* ------------------------------------------------------------------------
\* C20: a component that has not run ngOnInit has no signature and an
\* untouched host, and a change delivered to it leaves the style nodes and
\* the keys upserted as they were.
NoUpsertBeforeInit ==
  /\ [](\A i \in Instances :
          inst[i].phase = "constructed" =>
             /\ inst[i].ident = Undefined
             /\ inst[i].host = BareHost)
  /\ [][\A i \in Instances :
          (/\ inst[i].phase = "constructed"
           /\ inst'[i].phase = "constructed"
           /\ inst'[i].inputs # inst[i].inputs) =>
             head' = head /\ upserted' = upserted]_vars

\* C20 case: the only component has had an input changed before ngOnInit.
NoUpsertBeforeInit_ChangedEarly ==
  \E i \in Instances :
     /\ inst[i].phase = "constructed"
     /\ changes = 1
     /\ \A j \in Instances \ {i} : inst[j].phase = "absent"
     /\ head = <<>>

\* ------------------------------------------------------------------------
\* Tagged hosts and their style nodes
\* ------------------------------------------------------------------------
\* The style nodes a host's signature attribute selects: those of the
\* instance's kind whose data-signature is the value of the attribute.
NodesOfTag(i) ==
  {k \in DOMAIN head :
     /\ head[k].generatedBy = ComponentOf[inst[i].kind]
     /\ Str(head[k].signature) = inst[i].host.tag}

\* C21: after every operation, every host that carries a signature attribute
\* of its kind has a style node of that kind and signature in document.head:
\* no host is tagged with a signature that has no style node.
TaggedHostHasStyleNode ==
  \A i \in Instances : Truthy(inst[i].host.tag) => NodesOfTag(i) # {}

\* C21 witness: an input change has moved a Registered instance to a second
\* signature; its host carries the new signature and both nodes are in
\* document.head.
TaggedHostHasStyleNode_Retagged ==
  \E i \in Instances :
     /\ Registered(i)
     /\ Truthy(inst[i].host.tag)
     /\ changes > 0
     /\ NodesOfTag(i) # {}
     /\ \E k \in DOMAIN head :
           /\ head[k].generatedBy = ComponentOf[inst[i].kind]
           /\ k \notin NodesOfTag(i)

\* ------------------------------------------------------------------------
\* PokeCatalog: the catalogue page, its selection and its list requests
\* ------------------------------------------------------------------------
\* const MAX_SELECTION = 2
MAX_SELECTION == 2

\* The number of list requests a behaviour issues.
MaxRequests == 3

\* The Pokemon the remote API knows, in its order: id and name (code units
\* of "ab", "b", "ca").
Pokedex ==
  <<[id |-> 1, name |-> <<97, 98>>], [id |-> 2, name |-> <<98>>],
    [id |-> 3, name |-> <<99, 97>>]>>

\* The search texts a user types: "", "A" and "b".
Queries == {<<>>, <<65>>, <<98>>}

\* The pages and page sizes the paginator emits.
PageEvents == [page : {1, 2}, pageSize : {2}]

\* String.prototype.toLowerCase on the letters A-Z.
toLowerCase(s) == [k \in DOMAIN s |-> IF s[k] \in 65..90 THEN s[k] + 32 ELSE s[k]]

\* String.prototype.includes
includes(s, q) ==
  \E k \in 0..(Len(s) - Len(q)) : SubSeq(s, k + 1, k + Len(q)) = q

\* Array.prototype.slice(offset, offset + limit) of the API's list.
ApiResults(offset, limit) ==
  SubSeq(Pokedex, offset + 1,
         IF offset + limit < Len(Pokedex) THEN offset + limit ELSE Len(Pokedex))

\* PokeApiAdapter.getPokemonList: the page the API answers a request with.
getPokemonList(request) ==
  LET offset == (request.page - 1) * request.pageSize
      results == ApiResults(offset, request.pageSize)
      searchLower == toLowerCase(request.search)
      Found(p) == includes(toLowerCase(p.name), searchLower)
      filteredResults ==
        IF request.search # <<>> THEN SelectSeq(results, Found) ELSE results
  IN [items |-> filteredResults,
      totalCount |-> IF request.search # <<>> THEN Len(filteredResults)
                     ELSE Len(Pokedex)]

\* The component after its field initialisers: nothing requested yet.
\* requests is the log of the list requests issued, subscriptions are the
\* requests whose subscription is alive, inFlight those the API has still
\* to answer.
NewCatalog ==
  [phase |-> "constructed", currentPage |-> 1, pageSize |-> 20,
   searchQuery |-> <<>>, isLoading |-> TRUE, pokemonList |-> <<>>,
   totalItems |-> 0, selectedPokemon |-> <<>>, requests |-> <<>>,
   subscriptions |-> {}, inFlight |-> {}]

\* loadPokemon: isLoading is set and a request for the current page, page
\* size and search text is subscribed to.
loadPokemon(c) ==
  LET request == [id |-> Len(c.requests) + 1, page |-> c.currentPage,
                  pageSize |-> c.pageSize, search |-> c.searchQuery]
  IN [c EXCEPT !.isLoading = TRUE,
               !.requests = Append(@, request),
               !.subscriptions = @ \cup {request},
               !.inFlight = @ \cup {request}]

\* The next callback of loadPokemon's subscription.
LoadNext(c, page) ==
  [c EXCEPT !.pokemonList = page.items, !.totalItems = page.totalCount,
            !.isLoading = FALSE]

\* The error callback of loadPokemon's subscription.
LoadError(c) ==
  [c EXCEPT !.pokemonList = <<>>, !.totalItems = 0, !.isLoading = FALSE]

\* onSelectionChange appending whatever the number of selected Pokemon.
onSelectionChange_AlwaysAppends(c, pokemon, selected) ==
  LET Other(p) == p.id # pokemon.id
  IN IF selected
     THEN [c EXCEPT !.selectedPokemon = Append(@, pokemon)]
     ELSE [c EXCEPT !.selectedPokemon = SelectSeq(@, Other)]

\* onSelectionChange replacing the oldest selection when two are selected.
onSelectionChange_ReplacesOldest(c, pokemon, selected) ==
  LET current == c.selectedPokemon
      Other(p) == p.id # pokemon.id
  IN IF selected
     THEN IF Len(current) < MAX_SELECTION
          THEN [c EXCEPT !.selectedPokemon = Append(current, pokemon)]
          ELSE [c EXCEPT !.selectedPokemon = <<current[2], pokemon>>]
     ELSE [c EXCEPT !.selectedPokemon = SelectSeq(current, Other)]

\* onSelectionChange(event)
onSelectionChange(c, pokemon, selected) ==
  LET current == c.selectedPokemon
      Other(p) == p.id # pokemon.id
  IN IF selected
     THEN IF Len(current) < MAX_SELECTION
          THEN [c EXCEPT !.selectedPokemon = Append(current, pokemon)]
          ELSE [c EXCEPT !.selectedPokemon = <<current[1], pokemon>>]
     ELSE [c EXCEPT !.selectedPokemon = SelectSeq(current, Other)]

\* The template delivers events while the component is alive.
CatalogAlive == catalog.phase = "initialized"

CatalogFrame == UNCHANGED <<head, inst, changes, upserted, arg, result, nav, theme>>

CatalogNgOnInit ==
  /\ catalog.phase = "constructed"
  /\ catalog' = loadPokemon([catalog EXCEPT !.phase = "initialized"])
  /\ CatalogFrame

CatalogOnPageChange(event) ==
  /\ CatalogAlive
  /\ Len(catalog.requests) < MaxRequests
  /\ catalog' = loadPokemon([catalog EXCEPT !.currentPage = event.page,
                                            !.pageSize = event.pageSize])
  /\ CatalogFrame

CatalogOnSearch(query) ==
  /\ CatalogAlive
  /\ Len(catalog.requests) < MaxRequests
  /\ catalog' = loadPokemon([catalog EXCEPT !.searchQuery = query,
                                            !.currentPage = 1])
  /\ CatalogFrame

CatalogOnSearchValueChange(value) ==
  /\ CatalogAlive
  /\ catalog' = [catalog EXCEPT !.searchQuery = value]
  /\ CatalogFrame

\* The API answers a request with its page: the next callback runs if the
\* subscription is alive, and the request completes.
CatalogResponse(request) ==
  /\ request \in catalog.inFlight
  /\ catalog' =
       [(IF request \in catalog.subscriptions
         THEN LoadNext(catalog, getPokemonList(request)) ELSE catalog)
        EXCEPT !.inFlight = @ \ {request}, !.subscriptions = @ \ {request}]
  /\ CatalogFrame

\* The request fails: the error callback runs if the subscription is alive.
CatalogFailure(request) ==
  /\ request \in catalog.inFlight
  /\ catalog' =
       [(IF request \in catalog.subscriptions THEN LoadError(catalog) ELSE catalog)
        EXCEPT !.inFlight = @ \ {request}, !.subscriptions = @ \ {request}]
  /\ CatalogFrame

\* ngOnDestroy without takeUntil(this.destroy$) on the subscriptions.
CatalogNgOnDestroy_StaysSubscribed ==
  /\ CatalogAlive
  /\ catalog' = [catalog EXCEPT !.phase = "destroyed"]
  /\ CatalogFrame

\* ngOnDestroy: destroy$ emits and takeUntil ends every subscription.
CatalogNgOnDestroy ==
  /\ CatalogAlive
  /\ catalog' = [catalog EXCEPT !.phase = "destroyed", !.subscriptions = {}]
  /\ CatalogFrame

InitCatalog ==
  /\ head = <<>>
  /\ inst = [i \in Instances |-> Absent]
  /\ changes = 0
  /\ upserted = {}
  /\ arg = Undefined
  /\ result = NotApplied
  /\ catalog = NewCatalog
  /\ nav = NotInstantiated
  /\ theme = NotInstantiated

NextCatalog ==
  \/ CatalogNgOnInit
  \/ \E event \in PageEvents : CatalogOnPageChange(event)
  \/ \E query \in Queries : CatalogOnSearch(query)
  \/ \E value \in Queries : CatalogOnSearchValueChange(value)
  \/ \E request \in catalog.inFlight : CatalogResponse(request)
  \/ \E request \in catalog.inFlight : CatalogFailure(request)
  \/ CatalogNgOnDestroy

SpecCatalog == InitCatalog /\ [][NextCatalog]_vars

\* ------------------------------------------------------------------------
\* PokeCatalog: the selection handlers on their own
\* ------------------------------------------------------------------------
\* The selection handlers read and write selectedPokemon only, and the
\* loading handlers never touch it: the selection is followed from the
\* state ngOnInit leaves, with arg the log of the calls made.
MaxSelections == 4

\* The component once ngOnInit has run.
InitializedCatalog == loadPokemon([NewCatalog EXCEPT !.phase = "initialized"])

InitSelection ==
  /\ head = <<>>
  /\ inst = [i \in Instances |-> Absent]
  /\ changes = 0
  /\ upserted = {}
  /\ arg = <<>>
  /\ result = NotApplied
  /\ catalog = InitializedCatalog
  /\ nav = NotInstantiated
  /\ theme = NotInstantiated

SelectionFrame == UNCHANGED <<head, inst, changes, upserted, result, nav, theme>>

CatalogOnSelectionChange(pokemon, selected) ==
  /\ CatalogAlive
  /\ Len(arg) < MaxSelections
  /\ catalog' = onSelectionChange(catalog, pokemon, selected)
  /\ arg' = Append(arg, [call |-> "onSelectionChange", pokemon |-> pokemon,
                         selected |-> selected, before |-> catalog.selectedPokemon])
  /\ SelectionFrame

CatalogClearSelection ==
  /\ CatalogAlive
  /\ Len(arg) < MaxSelections
  /\ catalog' = [catalog EXCEPT !.selectedPokemon = <<>>]
  /\ arg' = Append(arg, [call |-> "clearSelection", pokemon |-> Pokedex[1],
                         selected |-> FALSE, before |-> catalog.selectedPokemon])
  /\ SelectionFrame

NextSelection ==
  \/ \E k \in DOMAIN Pokedex, selected \in BOOLEAN :
        CatalogOnSelectionChange(Pokedex[k], selected)
  \/ CatalogClearSelection

SpecSelection == InitSelection /\ [][NextSelection]_vars

\* The last call made.
LastCall == arg[Len(arg)]

\* C22: after any sequence of onSelectionChange and clearSelection calls the
\* number of selected Pokemon is at most MAX_SELECTION.
SelectionWithinLimit == Len(catalog.selectedPokemon) <= MAX_SELECTION

\* C22 witness: a Pokemon has been selected while MAX_SELECTION were
\* selected already, and MAX_SELECTION are selected still.
SelectionWithinLimit_SelectedWhenFull ==
  /\ arg # <<>>
  /\ LastCall.call = "onSelectionChange"
  /\ LastCall.selected
  /\ Len(LastCall.before) = MAX_SELECTION
  /\ Len(catalog.selectedPokemon) = MAX_SELECTION

\* The positions of a selection whose Pokemon has another id than `id`.
KeptPositions(selection, id) == {k \in DOMAIN selection : selection[k].id # id}

\* The j-th position, in order, of a set of positions.
NthOf(positions, j) ==
  CHOOSE k \in positions : Cardinality({m \in positions : m <= k}) = j

LatestRequest == catalog.requests[Len(catalog.requests)]

\* C24: once every response has arrived, the displayed pokemonList and
\* totalItems are those of the most recently issued request, in whatever
\* order the responses arrived.
LatestRequestIsDisplayed ==
  (/\ catalog.phase = "initialized"
   /\ catalog.inFlight = {}) =>
     \/ /\ catalog.pokemonList = getPokemonList(LatestRequest).items
        /\ catalog.totalItems = getPokemonList(LatestRequest).totalCount
     \/ /\ catalog.pokemonList = <<>>
        /\ catalog.totalItems = 0

\* C25: a list request in flight on a live component was issued with
\* isLoading set, and each arrival of a response to a live subscription
\* clears isLoading: a page makes its items and total count the displayed
\* ones, a failure empties the list and sets totalItems to 0. After
\* ngOnDestroy the arrival of a response changes nothing the page displays.
LoadSettlesBothWays ==
  /\ [][/\ Len(catalog'.requests) > Len(catalog.requests) => catalog'.isLoading
        /\ \A request \in catalog.inFlight :
              /\ (CatalogResponse(request) /\ catalog.phase = "initialized") =>
                    /\ ~catalog'.isLoading
                    /\ catalog'.pokemonList = getPokemonList(request).items
                    /\ catalog'.totalItems = getPokemonList(request).totalCount
              /\ (CatalogFailure(request) /\ catalog.phase = "initialized") =>
                    /\ ~catalog'.isLoading
                    /\ catalog'.pokemonList = <<>>
                    /\ catalog'.totalItems = 0
        /\ catalog.phase = "destroyed" =>
              /\ catalog'.isLoading = catalog.isLoading
              /\ catalog'.pokemonList = catalog.pokemonList
              /\ catalog'.totalItems = catalog.totalItems
              /\ catalog'.currentPage = catalog.currentPage
              /\ catalog'.pageSize = catalog.pageSize
              /\ catalog'.searchQuery = catalog.searchQuery
              /\ catalog'.selectedPokemon = catalog.selectedPokemon]_vars

\* C25 witness: the component was destroyed with a request in flight, the
\* response has arrived since, and the page still shows it is loading.
LoadSettlesBothWays_AnsweredAfterDestroy ==
  /\ catalog.phase = "destroyed"
  /\ catalog.requests # <<>>
  /\ catalog.inFlight = {}
  /\ catalog.isLoading

\* ------------------------------------------------------------------------
\* NavigationService: breadcrumbs shared through a property of window
\* ------------------------------------------------------------------------
\* The longest breadcrumb trail followed.
MaxTrail == 2

\* The NavigationService instances: one per application bundle.
NavServices == {1, 2}

\* The links callers pass: a label, no icon.
CallerLinks ==
  {[label |-> l, icon |-> "none"] : l \in {"Home", "Detail", "Compare"}}

\* The trails callers pass to setBreadcrumbs.
CallerTrails == UNION {[1..k -> CallerLinks] : k \in 0..MaxTrail}

\* No NavigationService constructed yet. window tells whether the code runs
\* where `typeof window !== 'undefined'`; global is window[NAV_STATE_KEY],
\* its listeners named by the instance they update.
NewNav(window) ==
  [window |-> window,
   global |-> [defined |-> FALSE, breadcrumbs |-> <<>>, listeners |-> {}],
   services |-> [i \in NavServices |-> [created |-> FALSE, breadcrumbs |-> <<>>]]]

\* getGlobalState(): the navigation state after the call. With a window the
\* shared object is created on first use; without one the object returned is
\* a fresh { breadcrumbs: [], listeners: new Set() } nobody else holds.
getGlobalState(n) ==
  IF n.window /\ ~n.global.defined
  THEN [n EXCEPT !.global = [defined |-> TRUE, breadcrumbs |-> <<>>, listeners |-> {}]]
  ELSE n

\* The breadcrumbs of the object getGlobalState() returns.
GlobalBreadcrumbs(n) == IF n.window THEN getGlobalState(n).global.breadcrumbs ELSE <<>>

\* new NavigationService(): the signal starts from the global breadcrumbs,
\* the constructor adds updateLocal to the listeners of the object
\* getGlobalState() returned and sets the signal once more.
NavConstructed(n, i) ==
  LET g == getGlobalState(n)
  IN IF n.window
     THEN [g EXCEPT !.global.listeners = @ \cup {i},
                    !.services[i] = [created |-> TRUE, breadcrumbs |-> g.global.breadcrumbs]]
     ELSE [n EXCEPT !.services[i] = [created |-> TRUE, breadcrumbs |-> <<>>]]

\* updateGlobalState notifying only the instance that made the call.
updateGlobalState_NotifiesCaller(n, i, links) ==
  LET g == getGlobalState(n)
  IN IF n.window
     THEN [g EXCEPT !.global.breadcrumbs = links,
                    !.services[i].breadcrumbs = links]
     ELSE n

\* updateGlobalState(links) called by instance i: the object getGlobalState()
\* returned gets the links and each of its listeners sets its signal.
updateGlobalState(n, i, links) ==
  LET g == getGlobalState(n)
  IN IF n.window
     THEN [g EXCEPT !.global.breadcrumbs = links,
                    !.services = [j \in NavServices |->
                                    IF j \in g.global.listeners
                                    THEN [@[j] EXCEPT !.breadcrumbs = links]
                                    ELSE @[j]]]
     ELSE n

NavFrame == UNCHANGED <<head, inst, changes, upserted, result, catalog, theme>>

\* arg is the last call made.
NavCall(call, i) == arg' = [call |-> call, by |-> i]

NavCreate(i) ==
  /\ ~nav.services[i].created
  /\ nav' = NavConstructed(nav, i)
  /\ NavCall("constructor", i)
  /\ NavFrame

NavSetBreadcrumbs(i, links) ==
  /\ nav.services[i].created
  /\ nav' = updateGlobalState(nav, i, links)
  /\ NavCall("setBreadcrumbs", i)
  /\ NavFrame

NavAddBreadcrumb(i, link) ==
  /\ nav.services[i].created
  /\ Len(GlobalBreadcrumbs(nav)) < MaxTrail
  /\ nav' = updateGlobalState(nav, i, Append(GlobalBreadcrumbs(nav), link))
  /\ NavCall("addBreadcrumb", i)
  /\ NavFrame

NavClearBreadcrumbs(i) ==
  /\ nav.services[i].created
  /\ nav' = updateGlobalState(nav, i, <<>>)
  /\ NavCall("clearBreadcrumbs", i)
  /\ NavFrame

NavSetBackLink(i, label) ==
  /\ nav.services[i].created
  /\ nav' = updateGlobalState(nav, i, <<[label |-> label, icon |-> "arrow-left"]>>)
  /\ NavCall("setBackLink", i)
  /\ NavFrame

InitNav ==
  /\ head = <<>>
  /\ inst = [i \in Instances |-> Absent]
  /\ changes = 0
  /\ upserted = {}
  /\ arg = [call |-> "none", by |-> 0]
  /\ result = NotApplied
  /\ catalog = NotInstantiated
  /\ nav \in {NewNav(window) : window \in BOOLEAN}
  /\ theme = NotInstantiated

NextNav ==
  \E i \in NavServices :
     \/ NavCreate(i)
     \/ \E links \in CallerTrails : NavSetBreadcrumbs(i, links)
     \/ \E link \in CallerLinks : NavAddBreadcrumb(i, link)
     \/ NavClearBreadcrumbs(i)
     \/ \E label \in {"Back", "Home"} : NavSetBackLink(i, label)

SpecNav == InitNav /\ [][NextNav]_vars

\* C26: after any setBreadcrumbs, addBreadcrumb, clearBreadcrumbs or
\* setBackLink call made through any instance, the breadcrumbs of every
\* NavigationService instance are the shared global breadcrumbs; after
\* setBackLink they are exactly one link, after clearBreadcrumbs none.
BreadcrumbsAreShared ==
  \A i \in NavServices :
     nav.services[i].created =>
        /\ nav.global.defined => nav.services[i].breadcrumbs = nav.global.breadcrumbs
        /\ arg.call = "setBackLink" => Len(nav.services[i].breadcrumbs) = 1
        /\ arg.call = "clearBreadcrumbs" => Len(nav.services[i].breadcrumbs) = 0

\* The same property restricted to the code running where a window exists.
BreadcrumbsAreSharedInWindow == nav.window => BreadcrumbsAreShared

\* Two instances where a window exists, one of which has set a back link.
BreadcrumbsAreShared_TwoInstances ==
  /\ nav.window
  /\ \A i \in NavServices : nav.services[i].created
  /\ arg.call = "setBackLink"
  /\ nav.global.breadcrumbs # <<>>

\* ------------------------------------------------------------------------
\* ThemeService: the theme signal, data-theme, localStorage and the system
\* ------------------------------------------------------------------------
\* The number of setTheme, toggleTheme and system changes followed.
MaxThemeCalls == 4

Themes == {"light", "dark"}

\* Before the service is constructed. window tells whether window, document,
\* localStorage and matchMedia exist; stored is localStorage['pc-theme']
\* ("none": no item), prefersDark the (prefers-color-scheme: dark) media
\* query, dataTheme the data-theme attribute of the document element.
\* manual records that the user has set a preference: by calling setTheme or
\* toggleTheme, or in an earlier session whose choice is in the storage.
NewTheme(window, stored, prefersDark) ==
  [window |-> window, created |-> FALSE, themeSignal |-> "none",
   dataTheme |-> "none", stored |-> IF window THEN stored ELSE "none",
   prefersDark |-> prefersDark, listening |-> FALSE,
   manual |-> window /\ stored # "none"]

\* getInitialTheme()
getInitialTheme(t) ==
  IF t.window /\ t.stored \in Themes THEN t.stored
  ELSE IF t.window THEN (IF t.prefersDark THEN "dark" ELSE "light")
  ELSE "light"

\* applyTheme(theme)
applyTheme(t, newTheme) == IF t.window THEN [t EXCEPT !.dataTheme = newTheme] ELSE t

\* persistTheme(theme)
persistTheme(t, newTheme) == IF t.window THEN [t EXCEPT !.stored = newTheme] ELSE t

\* setTheme leaving the storage as it is.
setTheme_NotPersisted(t, newTheme) ==
  applyTheme([t EXCEPT !.themeSignal = newTheme], newTheme)

\* setTheme(theme)
setTheme(t, newTheme) ==
  persistTheme(applyTheme([t EXCEPT !.themeSignal = newTheme], newTheme), newTheme)

\* toggleTheme()
toggleTheme(t) == setTheme(t, IF t.themeSignal = "light" THEN "dark" ELSE "light")

\* listenToSystemThemeChanges()
listenToSystemThemeChanges(t) == IF t.window THEN [t EXCEPT !.listening = TRUE] ELSE t

\* The listener of the media query's change event.
OnSystemChange(t, matches) ==
  IF t.stored = "none" THEN setTheme(t, IF matches THEN "dark" ELSE "light") ELSE t

ThemeFrame == UNCHANGED <<head, inst, changes, upserted, result, catalog, nav>>

\* arg is the log of the calls and system changes, each with the theme
\* before it.
ThemeLogged(call) ==
  /\ Len(arg) < MaxThemeCalls
  /\ arg' = Append(arg, [call |-> call, before |-> theme.themeSignal,
                         manual |-> theme.manual])

\* new ThemeService()
ThemeCreate ==
  /\ ~theme.created
  /\ theme' = listenToSystemThemeChanges(
                 applyTheme([theme EXCEPT !.created = TRUE,
                                          !.themeSignal = getInitialTheme(theme)],
                            getInitialTheme(theme)))
  /\ UNCHANGED arg
  /\ ThemeFrame

\* The user picks a theme.
ThemeSetTheme(t) ==
  /\ theme.created
  /\ ThemeLogged("setTheme")
  /\ theme' = [setTheme(theme, t) EXCEPT !.manual = TRUE]
  /\ ThemeFrame

\* The user toggles the theme.
ThemeToggleTheme ==
  /\ theme.created
  /\ ThemeLogged("toggleTheme")
  /\ theme' = [toggleTheme(theme) EXCEPT !.manual = TRUE]
  /\ ThemeFrame

\* The system colour scheme changes: the media query flips and, if the
\* service listens, its listener runs.
ThemeSystemChange ==
  /\ theme.window
  /\ theme.created
  /\ ThemeLogged("systemChange")
  /\ LET flipped == [theme EXCEPT !.prefersDark = ~@]
     IN theme' = IF theme.listening THEN OnSystemChange(flipped, flipped.prefersDark)
                 ELSE flipped
  /\ ThemeFrame

InitTheme ==
  /\ head = <<>>
  /\ inst = [i \in Instances |-> Absent]
  /\ changes = 0
  /\ upserted = {}
  /\ arg = <<>>
  /\ result = NotApplied
  /\ catalog = NotInstantiated
  /\ nav = NotInstantiated
  /\ theme \in {NewTheme(window, stored, prefersDark) :
                  window \in BOOLEAN, stored \in Themes \cup {"none"},
                  prefersDark \in BOOLEAN}

NextTheme ==
  \/ ThemeCreate
  \/ \E t \in Themes : ThemeSetTheme(t)
  \/ ThemeToggleTheme
  \/ ThemeSystemChange

SpecTheme == InitTheme /\ [][NextTheme]_vars

\* The theme of a system colour scheme.
SchemeTheme(prefersDark) == IF prefersDark THEN "dark" ELSE "light"

\* C27: a change of the system colour scheme switches the theme to the new
\* scheme if the user has not manually set a preference and leaves the theme
\* alone if the user has, at every system change and not only the first.
SystemChangeFollowsUnlessManual ==
  (arg # <<>> /\ arg[Len(arg)].call = "systemChange") =>
     IF arg[Len(arg)].manual
     THEN theme.themeSignal = arg[Len(arg)].before
     ELSE theme.themeSignal = SchemeTheme(theme.prefersDark)

\* The first system change of a session that started with nothing stored
\* and no manual choice switches the theme.
FirstSystemChangeSwitches ==
  /\ Len(arg) = 1
  /\ arg[1].call = "systemChange"
  /\ ~arg[1].manual
  /\ theme.themeSignal = SchemeTheme(theme.prefersDark)
  /\ theme.themeSignal # arg[1].before

====
